---- MODULE Spec2Model ----
(***************************************************************************)
(* A model of the OpenMarch canvas (OpenMarchCanvas.ts) and of the         *)
(* MarcherPage table (MarcherPageTable.ts).                                *)
(*                                                                         *)
(* Numbers that the code holds as JavaScript doubles are modelled as exact *)
(* rationals <<n, d>> with d >= 0, in lowest terms; <<1, 0>> is +Infinity  *)
(* (the result of dividing a positive number by zero).                     *)
(***************************************************************************)
EXTENDS Integers, Sequences, FiniteSets, TLC

VARIABLES
    \* ---- viewport controller (OpenMarchCanvas.ts:95-133) ----
    transformValues,      \* [translateX, translateY, scale]: the CSS transform
    viewportTransform,    \* [scale, translateX, translateY]: fabric's native viewport
    isPanning,            \* a CSS pan is in progress
    lastPosX, lastPosY,   \* last pointer position / touch midpoint
    initialPinchDistance, \* the reference distance of the pinch
    touches,              \* the touch points that are down (e.touches)
    zoomTimeout,          \* _zoomTimeout: the handle of the timer set last (0: none yet)
    pendingTimers,        \* the handles of the timers that are set and have not fired
    staticGridRef,        \* the field grid object: [id, gridLines, halfLines,
                          \*   builtFrom, fieldProperties, image, yGridStart, yGridLines,
                          \*   checkpointLines, objectCaching]
    zoomSensitivity,      \* wheel zoom coefficient
    panSensitivity,       \* mouse wheel pan coefficient
    trackpadPanSensitivity, \* trackpad pan coefficient
    trackpadModeEnabled,  \* user preference
    isMac,                \* navigator.platform contains "Mac"
    window,               \* [innerWidth, innerHeight]
    feedbackCount,        \* number of showZoomLimitFeedback calls so far
    events,               \* number of input events handled so far
    lastEvent,            \* the handler that ran last
    zoomLog,              \* what the zoomContainer call of the last handler did
    inputLog,             \* the input of the last handler and what it was taken for
    transition,           \* cssZoomWrapper.style.transition
    transitionResets,     \* the pending transition-reset timers, in the order in which
                          \*   they were set: [delay, at], at the turn of the handler
                          \*   that set the timer
    \* ---- settings and field grid (OpenMarchCanvas.ts:1492-1504, 2097-2227) ----
    uiSettings,           \* _uiSettings
    fieldProperties,      \* _fieldProperties: the field geometry
    gridBuilds,           \* number of renderFieldGrid calls so far
    settingOps,           \* number of settings operations so far
    backgroundImage,      \* _backgroundImage: [present, width, height]
    bgImageValues,        \* _bgImageValues: [left, top, scale, imgAspectRatio] or undefined
    imageLog,             \* what the background-image operation that ran last did
    \* ---- click or drag (OpenMarchCanvas.ts:27-30, 55-60) ----
    selectDragStart,      \* [x, y, time] of the pointer-down
    clickLog,             \* how the pointer-up that came last was classified
    \* ---- SVG export (OpenMarchCanvas.ts:2421-2478) ----
    canvasSize,           \* [width, height] of the canvas element
    exports,              \* number of toSVG calls so far
    exportLog,            \* what the toSVG call that ran last found and how it ended
    \* ---- marcher shapes (OpenMarchCanvas.ts:64, 1182-1219) ----
    marcherShapes,        \* the MarcherShape objects: [id, shapePage], in array order
    shapeOps,             \* number of renderMarcherShapes calls so far
    shapeLog,             \* what the renderMarcherShapes call that ran last did
    lastIssued,           \* history: the arguments of the renderMarchers call issued
                          \*   last, if another call awaited its lookup then; else empty
    \* ---- scene synchronizer (OpenMarchCanvas.ts:1226-1298) ----
    canvasMarchers,       \* the CanvasMarcher objects on the canvas, in draw order
    pendingRenders,       \* renderMarchers calls awaiting the appearance lookup
    nextObjectId,         \* identity of the next drawable constructed
    renders,              \* number of renderMarchers calls issued so far
    renderLog,            \* what the renderMarchers call that completed last did
    prevRenderArgs,       \* the arguments of the call that completed before it
    \* ---- MarcherPage table (MarcherPageTable.ts) ----
    marcherPageTable,     \* (marcher_id, page_id) -> [x, y]
    shapePageMarchers,    \* the (marcher_id, page_id) pairs with a ShapePageMarcher record
    dbOps,                \* number of database operations so far
    updateLog,            \* what the updateMarcherPages call that ran last did
    \* ---- marchers and the rows of their MarcherPages (MarcherPageTable.ts:201-340) ----
    marcherTable,         \* the rows of the marchers table: [id, drill_prefix, drill_order]
    pageTable,            \* the ids of the pages, in the order getPages returns them
    marcherPageRows,      \* the rows of the marcher_pages table, with their ids
    createLog,            \* what the createMarchers call that ran last did
    \* ---- selection manager (OpenMarchCanvas.ts:2289-2316) ----
    handleSelectLock,     \* the re-entrancy lock
    activeObject,         \* fabric's active object: [kind, objects]
    selectPc,             \* position of the outer setActiveObjects call
    selectArg,            \* the argument of the outer setActiveObjects call
    selectOps,            \* number of outer setActiveObjects calls so far
    nestedLog,            \* what the nested setActiveObjects call that ran last did
    lockMovement          \* lockMovementX and lockMovementY of the active object (of
                          \*   the object that was active last, when none is)

viewVars == <<transformValues, viewportTransform, isPanning, lastPosX, lastPosY,
              initialPinchDistance, touches, zoomTimeout, pendingTimers, staticGridRef,
              zoomSensitivity, panSensitivity, trackpadPanSensitivity,
              trackpadModeEnabled, isMac, window, feedbackCount, events,
              lastEvent, zoomLog, inputLog, transition, transitionResets>>
\* the transition style of the container and the timers that reset it
styleVars == <<transition, transitionResets>>
\* the idle timer and the grid it re-enables the cache of
idleVars == <<zoomTimeout, pendingTimers, staticGridRef>>
\* the platform and the preferences that the gesture handlers read
platformVars == <<zoomSensitivity, panSensitivity, trackpadPanSensitivity,
                  trackpadModeEnabled, isMac, window>>
imageVars == <<backgroundImage, bgImageValues, imageLog>>
gridVars == <<uiSettings, fieldProperties, gridBuilds, settingOps, imageVars>>
clickVars == <<selectDragStart, clickLog>>
exportVars == <<canvasSize, exports, exportLog>>
\* the state that the viewport, grid, scene, table and selection operations leave alone
shapeVars == <<marcherShapes, shapeOps, shapeLog>>
\* a history of the renderMarchers calls, kept by the specification of overlapping
\* calls only
issueVars == <<lastIssued>>
canvasVars == <<clickVars, exportVars, shapeVars, issueVars>>
renderVars == <<canvasMarchers, pendingRenders, nextObjectId, renders, renderLog,
                prevRenderArgs>>
rosterVars == <<marcherTable, pageTable, marcherPageRows, createLog>>
dbVars == <<marcherPageTable, shapePageMarchers, dbOps, updateLog, rosterVars>>
selCallVars == <<handleSelectLock, activeObject, selectPc, selectArg, selectOps,
                 nestedLog>>
selVars == <<selCallVars, lockMovement>>
vars == <<viewVars, gridVars, canvasVars, renderVars, dbVars, selVars>>

-----------------------------------------------------------------------------
(* Exact rational arithmetic for the code's doubles.                       *)

Abs(n) == IF n < 0 THEN -n ELSE n

RECURSIVE GCD(_, _)
GCD(a, b) == IF b = 0 THEN a ELSE GCD(b, a % b)

NonZeroGCD(a, b) == LET g == GCD(Abs(a), Abs(b)) IN IF g = 0 THEN 1 ELSE g

Rat(n, d) ==
    LET g == NonZeroGCD(n, d)
    IN  IF d < 0 THEN <<(-n) \div g, (-d) \div g>> ELSE <<n \div g, d \div g>>

Whole(n) == <<n, 1>>

\* The one element of a singleton set.  An operand that is bound as the element
\* of a singleton set is evaluated once, however often the body then reads it.
Only(S) == CHOOSE r \in S : TRUE

Sum(a, b) ==
    LET g == NonZeroGCD(a[2], b[2])
    IN  Rat(a[1] * (b[2] \div g) + b[1] * (a[2] \div g), (a[2] \div g) * b[2])
Product(a, b) ==
    LET g1 == NonZeroGCD(a[1], b[2])
        g2 == NonZeroGCD(b[1], a[2])
    IN  Rat((a[1] \div g1) * (b[1] \div g2), (a[2] \div g2) * (b[2] \div g1))
Inverse(b) == IF b[1] < 0 THEN <<-b[2], -b[1]>> ELSE <<b[2], b[1]>>

RAdd(a, b) == Only({ Sum(u, v) : u \in {a}, v \in {b} })
RSub(a, b) == Only({ Sum(u, <<-v[1], v[2]>>) : u \in {a}, v \in {b} })
RMul(a, b) == Only({ Product(u, v) : u \in {a}, v \in {b} })
RDiv(a, b) == Only({ Product(u, Inverse(v)) : u \in {a}, v \in {b} })

RLt(a, b) == \E u \in {a}, v \in {b} : u[1] * v[2] < v[1] * u[2]
RLe(a, b) == \E u \in {a}, v \in {b} : u[1] * v[2] <= v[1] * u[2]
RAbs(a) == Only({ <<Abs(u[1]), u[2]>> : u \in {a} })
RMax(a, b) == Only({ IF u[1] * v[2] < v[1] * u[2] THEN v ELSE u : u \in {a}, v \in {b} })
RMin(a, b) == Only({ IF v[1] * u[2] < u[1] * v[2] THEN v ELSE u : u \in {a}, v \in {b} })

\* a < 1/k for a rational a >= 0 and a positive integer k, without forming a[1] * k
RLtOneOver(a, k) == \E u \in {a} : u[2] > 0 /\ u[1] <= (u[2] - 1) \div k

-----------------------------------------------------------------------------
(* Viewport controller.  The canvas is constructed with a canvas element,  *)
(* so cssZoomWrapper and its parent exist and the gesture handlers are     *)
(* registered (setupExternalPanZoomContainer).                             *)

MIN_ZOOM == <<1, 2>>
MAX_ZOOM == <<2, 1>>
One == Whole(1)
Half == <<1, 2>>

\* getBoundingClientRect() of the outer wrapper
ContainerRect == [left |-> 10, top |-> 5]
\* fieldProperties.width / height
XCheckpoint(steps, visible) == [stepsFromCenterFront |-> steps, visible |-> visible]
\* a y-checkpoint at a rational number of steps
YCheckpointAt(steps, visible, reference) ==
    [stepsFromCenterFront |-> steps, visible |-> visible, useAsReference |-> reference]
\* a y-checkpoint at a whole number of steps
YCheckpoint(steps, visible, reference) == YCheckpointAt(<<steps, 1>>, visible, reference)

Field ==
    [width |-> 16, height |-> 8, showFieldImage |-> TRUE, imageFillOrFit |-> "fit",
     pixelsPerStep |-> 2, centerFrontPoint |-> [xPixels |-> 8, yPixels |-> 8],
     xCheckpoints |-> <<XCheckpoint(-2, TRUE), XCheckpoint(2, TRUE)>>,
     yCheckpoints |-> <<YCheckpoint(-2, TRUE, TRUE)>>, useHashes |-> TRUE]

NoZoom == [called |-> FALSE]

\* the transition styles (lines 488-489, 762-763, 1053-1054) and the delays, in
\* milliseconds, of the timers that reset them (lines 500, 771, 1062)
PanTransition == [style |-> "transform 0.08s", delay |-> 80]
ZoomTransition == [style |-> "transform 0.15s", delay |-> 150]
FitTransition == [style |-> "transform 0.3s", delay |-> 300]

\* a fabric viewport that is never brought up to date
StaleViewport(tv) ==
    [scale |-> One, translateX |-> Whole(0), translateY |-> Whole(0)]

\* this.viewportTransform[0], [4], [5] after updateFabricViewportFromContainer
UpdateFabricViewportFromContainer(tv) ==
    [scale |-> tv.scale, translateX |-> tv.translateX, translateY |-> tv.translateY]

\* a translation that scales about the origin of the container, not the anchor
ZoomTranslateAboutOrigin(anchor, translate, scaleFactor) == RMul(translate, scaleFactor)

\* a scale that is not limited
Unclamped(s) == s

\* a limit test that never finds the scale at its limit
NeverAtLimit(prevScale, factor) == FALSE

\* the part of zoomContainer that sets the new translation (lines 750-755)
ZoomTranslate(anchor, translate, scaleFactor) ==
    RSub(anchor, RMul(RSub(anchor, translate), scaleFactor))

\* the scale limits of zoomContainer (line 741)
ClampScale(s) == RMax(MIN_ZOOM, RMin(MAX_ZOOM, s))

\* prevScale <= MIN_ZOOM && factor < 1, prevScale >= MAX_ZOOM && factor > 1
IsAtMinZoom(prevScale, factor) == RLe(prevScale, MIN_ZOOM) /\ RLt(factor, One)
IsAtMaxZoom(prevScale, factor) == RLe(MAX_ZOOM, prevScale) /\ RLt(One, factor)

\* dampedFactor of zoomContainer (lines 718-721)
DampedFactor(factor) ==
    IF RLt(One, factor)
    THEN RAdd(One, RMul(RSub(factor, One), Half))
    ELSE RSub(One, RMul(RSub(One, factor), Half))

\* zoomContainer(factor, clientX, clientY), once newScale has been computed: the
\* new transform, the number of showZoomLimitFeedback calls it made, the anchor in
\* container coordinates and the transition it set (lines 726-771)
ZoomTo(tv, factor, x, y, newScale) ==
    LET prevScale == tv.scale
        log == [called |-> TRUE, factor |-> factor, x |-> x, y |-> y, pre |-> tv]
    IN  IF IsAtMinZoom(prevScale, factor) \/ IsAtMaxZoom(prevScale, factor)
        THEN [tv |-> tv, log |-> log @@ [post |-> tv, feedback |-> 1], styles |-> <<>>]
        ELSE IF RLtOneOver(RAbs(RSub(newScale, prevScale)), 10000)
        THEN [tv |-> tv, log |-> log @@ [post |-> tv, feedback |-> 0], styles |-> <<>>]
        ELSE Only({ [tv |-> post, log |-> log @@ [post |-> post, feedback |-> 0],
                     styles |-> <<ZoomTransition>>] :
                 post \in { [translateX |-> ZoomTranslate(x, tv.translateX, scaleFactor),
                             translateY |-> ZoomTranslate(y, tv.translateY, scaleFactor),
                             scale |-> newScale] :
                               scaleFactor \in { RDiv(newScale, prevScale) } } })

\* zoomContainer(factor, clientX, clientY) (lines 703-775)
ZoomContainer(tv, factor, clientX, clientY) ==
    Only({ ZoomTo(t, f, x, y, ClampScale(RMul(t.scale, DampedFactor(f)))) :
             t \in {tv}, f \in {factor},
             x \in { RSub(clientX, Whole(ContainerRect.left)) },
             y \in { RSub(clientY, Whole(ContainerRect.top)) } })

\* applyInertia of panContainer (lines 462-477); sign * (absDelta * c) = delta * c
Inertia(delta) ==
    LET absDelta == RAbs(delta)
    IN  IF RLt(absDelta, Whole(3)) THEN RMul(delta, <<3, 5>>)
        ELSE IF RLt(absDelta, Whole(10)) THEN RMul(delta, <<1, 2>>)
        ELSE IF RLt(absDelta, Whole(30)) THEN RMul(delta, <<2, 5>>)
        ELSE RMul(delta, <<3, 10>>)
ApplyInertia(delta) == Only({ Inertia(d) : d \in {delta} })

\* panContainer(deltaX, deltaY): the new transform (it is committed to fabric at once)
PanContainer(tv, deltaX, deltaY) ==
    Only({ [t EXCEPT !.translateX = RAdd(@, ApplyInertia(deltaX)),
                     !.translateY = RAdd(@, ApplyInertia(deltaY))] : t \in {tv} })

\* Math.hypot for the touch points of the model, whose distances are whole numbers
RECURSIVE ISqrt(_, _)
ISqrt(n, r) == IF (r + 1) * (r + 1) > n THEN r ELSE ISqrt(n, r + 1)
Hypot(dx, dy) == ISqrt(dx * dx + dy * dy, 0)

\* fitToScreen: the transform that fits the field into the window (lines 1024-1050)
FitToScreen(w) ==
    LET margin == 40
        scaleX == Rat(w.innerWidth - margin, fieldProperties.width)
        scaleY == Rat(w.innerHeight - margin, fieldProperties.height)
    IN  Only({ [translateX |->
                    RSub(Rat(w.innerWidth, 2), RMul(Rat(fieldProperties.width, 2), scale)),
                translateY |->
                    RSub(Rat(w.innerHeight, 2), RMul(Rat(fieldProperties.height, 2), scale)),
                scale |-> scale] :
                  scale \in { ClampScale(RMul(RMin(scaleX, scaleY), <<4, 5>>)) } })

\* resetZoom: the default transform (lines 1003-1005)
ResetZoom == [translateX |-> Whole(0), translateY |-> Whole(0), scale |-> One]

-----------------------------------------------------------------------------
(* Inputs of the viewport model.                                           *)

MaxZoomEvents == 3
MaxGestureEvents == 4
MaxTouches == 2

WindowSizes ==
    { [innerWidth |-> 44, innerHeight |-> 44],
      [innerWidth |-> 56, innerHeight |-> 48],
      [innerWidth |-> 120, innerHeight |-> 100] }

ZoomSensitivities == { <<1, 10>>, <<1, 2>> }

\* client coordinates of pointer events
ClientPoints == { <<10, 5>>, <<50, 25>> }
\* client coordinates of touch points: pairwise distances 30, 40 and 50
TouchPoints == { <<10, 5>>, <<40, 5>>, <<40, 45>> }

\* what inputLog holds after a handler whose input no property needs
NoInput == [kind |-> "none"]

WheelEvents ==
    { [deltaX |-> 0, deltaY |-> dy, deltaMode |-> 0, ctrlKey |-> TRUE, metaKey |-> FALSE,
       clientX |-> p[1], clientY |-> p[2]] : dy \in {-100, 100}, p \in ClientPoints }
    \cup
    { [deltaX |-> d[1], deltaY |-> d[2], deltaMode |-> m, ctrlKey |-> FALSE,
       metaKey |-> FALSE, clientX |-> 10, clientY |-> 5] :
         d \in { <<2, -4>>, <<0, 100>> }, m \in {0, 1} }

MouseDownEvents ==
    { [button |-> b[1], altKey |-> b[2], clientX |-> p[1], clientY |-> p[2]] :
        b \in { <<1, FALSE>>, <<0, TRUE>>, <<0, FALSE>> }, p \in ClientPoints }

-----------------------------------------------------------------------------
(* Viewport handlers.  Each yields an effect: the new transform, the new   *)
(* fabric viewport, the record of the zoomContainer call it made and the   *)
(* transitions it set, each with a timer that resets it.                   *)

ZoomEffect(tv, vpt, factor, clientX, clientY) ==
    Only({ [tv |-> z.tv, vpt |-> vpt, log |-> z.log, styles |-> z.styles] :
             z \in { ZoomContainer(tv, factor, clientX, clientY) } })

PanEffect(tv, deltaX, deltaY) ==
    Only({ [tv |-> t, vpt |-> UpdateFabricViewportFromContainer(t), log |-> NoZoom,
            styles |-> <<PanTransition>>] :
             t \in { PanContainer(tv, deltaX, deltaY) } })

\* 1 + (e.deltaY < 0 ? zoomSensitivity : -zoomSensitivity)
SmoothZoomFactor(e) ==
    IF e.deltaY < 0 THEN RAdd(One, zoomSensitivity) ELSE RSub(One, zoomSensitivity)

\* isMacTrackpadGesture(e) (lines 431-451)
IsMacTrackpadGesture(e) ==
    LET isPixelMode == e.deltaMode = 0
        isPreciseMovement == Abs(e.deltaY) < 10 \/ Abs(e.deltaX) < 10
        isTwoDimensional == Abs(e.deltaX) > 0 /\ Abs(e.deltaY) > 0
    IN  /\ isMac
        /\ trackpadModeEnabled
        /\ isPixelMode /\ (isPreciseMovement \/ isTwoDimensional)

\* the effect of a wheel event before any of its listeners has run
WheelStart ==
    [tv |-> transformValues, vpt |-> viewportTransform, log |-> NoZoom, styles |-> <<>>,
     handled |-> <<>>]

\* the zoom-or-pan choice of a wheel handler, panning with the given sensitivity; it
\* acts on the transform that the listeners before it have left
WheelZoomOrPan(from, e, sensitivity, handler) ==
    Only({ IF e.ctrlKey \/ e.metaKey
           THEN Only({ [tv |-> z.tv, vpt |-> z.vpt, log |-> z.log,
                        styles |-> f.styles \o z.styles,
                        handled |-> Append(f.handled,
                            [handler |-> handler, intent |-> "zoom",
                             sensitivity |-> zoomSensitivity])] :
                         z \in { ZoomEffect(f.tv, f.vpt, SmoothZoomFactor(e),
                                            Whole(e.clientX), Whole(e.clientY)) } })
           ELSE Only({ [tv |-> z.tv, vpt |-> z.vpt, log |-> f.log,
                        styles |-> f.styles \o z.styles,
                        handled |-> Append(f.handled,
                            [handler |-> handler, intent |-> "pan",
                             sensitivity |-> sensitivity])] :
                         z \in { PanEffect(f.tv, RMul(Whole(-e.deltaX), sensitivity),
                                           RMul(Whole(-e.deltaY), sensitivity)) } })
           : f \in {from} })

\* handleMacOSTrackpad (lines 379-413): the capture-phase listener
HandleMacOSTrackpad(from, e) ==
    IF isMac /\ IsMacTrackpadGesture(e)
    THEN WheelZoomOrPan(from, e, trackpadPanSensitivity, "handleMacOSTrackpad")
    ELSE from

\* a mutation of HandleContainerWheel: the mouse pan sensitivity on every platform
ContainerWheelWithMouseSensitivity(from, e) ==
    WheelZoomOrPan(from, e, panSensitivity, "handleContainerWheel")

\* handleContainerWheel (lines 506-554): the bubble-phase listener
HandleContainerWheel(from, e) ==
    IF isMac /\ trackpadModeEnabled
    THEN WheelZoomOrPan(from, e, trackpadPanSensitivity, "handleContainerWheel")
    ELSE WheelZoomOrPan(from, e, panSensitivity, "handleContainerWheel")

\* a mutation of StopsPropagation: the capture-phase listener lets every event through
NeverStopsPropagation(e) == FALSE

\* handleMacOSTrackpad calls e.stopPropagation() on the events it takes (lines 380-389);
\* an event whose propagation is stopped in the capture phase does not reach the
\* bubble-phase listeners, those of the same element included
StopsPropagation(e) == isMac /\ IsMacTrackpadGesture(e)

\* a mutation of ClearTimeout: the pending timer is left running
KeepTimeout(timers, handle) == timers

\* clearTimeout(handle) (lines 416, 557)
ClearTimeout(timers, handle) == timers \ {handle}

\* the handle that setTimeout returns: one that no pending timer has
NewTimer(timers) ==
    CHOOSE id \in 1..(Cardinality(timers) + 1) :
        id \notin timers /\ \A other \in 1..(id - 1) : other \in timers

\* clearTimeout(this._zoomTimeout); this._zoomTimeout = setTimeout(...) (lines 415-423,
\* 556-564), done by each of n handlers in turn
RECURSIVE RestartZoomTimeout(_, _)
RestartZoomTimeout(timer, n) ==
    IF n = 0 THEN timer
    ELSE Only({ RestartZoomTimeout([handle |-> NewTimer(cleared),
                                    pending |-> cleared \cup {NewTimer(cleared)}], n - 1) :
                  cleared \in { ClearTimeout(timer.pending, timer.handle) } })

\* a mutation of SetObjectCaching: the grid is built anew to change the flag
RebuildWithObjectCaching(grid, caching) ==
    [grid EXCEPT !.id = @ + 1, !.objectCaching = caching]

\* this.staticGridRef.objectCaching = caching (lines 392-394, 419-420, 511-513, 559-560)
SetObjectCaching(grid, caching) == [grid EXCEPT !.objectCaching = caching]

\* the turn of a handler that sets timers: after the turns of the pending timers
NextTurn(resets) == IF resets = <<>> THEN 1 ELSE resets[Len(resets)].at + 1

ApplyEffect(effect, name) ==
    \E eff \in {effect} :
        /\ transformValues' = eff.tv
        /\ viewportTransform' = eff.vpt
        /\ zoomLog' = eff.log
        /\ feedbackCount' = feedbackCount + (IF eff.log.called THEN eff.log.feedback ELSE 0)
        /\ events' = events + 1
        /\ lastEvent' = name
        /\ inputLog' = IF "input" \in DOMAIN eff THEN eff.input ELSE NoInput
        /\ transition' = IF eff.styles = <<>> THEN transition
                         ELSE eff.styles[Len(eff.styles)].style
        /\ transitionResets' =
               transitionResets \o
                   [i \in 1..Len(eff.styles) |->
                       [delay |-> eff.styles[i].delay, at |-> NextTurn(transitionResets)]]

NoEffect ==
    [tv |-> transformValues, vpt |-> viewportTransform, log |-> NoZoom, styles |-> <<>>]

\* A wheel event on the outer container: the capture-phase listener runs first, the
\* bubble-phase listener after it unless the propagation was stopped.  Each handler
\* that takes the event turns the grid's cache off and restarts the idle timer.
Wheel(e) ==
    /\ \E captured \in { HandleMacOSTrackpad(WheelStart, e) } :
       \E eff \in { IF StopsPropagation(e) THEN captured
                    ELSE HandleContainerWheel(captured, e) } :
           /\ ApplyEffect([tv |-> eff.tv, vpt |-> eff.vpt, log |-> eff.log,
                           styles |-> eff.styles,
                           input |-> [kind |-> "wheel", event |-> e,
                                      trackpadGesture |-> IsMacTrackpadGesture(e),
                                      handled |-> eff.handled]], "wheel")
           /\ \E timer \in { RestartZoomTimeout([handle |-> zoomTimeout,
                                                 pending |-> pendingTimers],
                                                Len(eff.handled)) } :
                  /\ zoomTimeout' = timer.handle
                  /\ pendingTimers' = timer.pending
    /\ staticGridRef' = SetObjectCaching(staticGridRef, FALSE)
    /\ UNCHANGED <<isPanning, lastPosX, lastPosY, initialPinchDistance, touches,
                   platformVars>>

\* the callback of a _zoomTimeout timer (lines 417-423, 558-564)
ZoomTimeoutFires ==
    /\ \E handle \in pendingTimers : pendingTimers' = pendingTimers \ {handle}
    /\ IF ~staticGridRef.objectCaching
       THEN /\ staticGridRef' = SetObjectCaching(staticGridRef, TRUE)
            /\ viewportTransform' = UpdateFabricViewportFromContainer(transformValues)
       ELSE UNCHANGED <<staticGridRef, viewportTransform>>
    /\ lastEvent' = "zoomTimeout"
    /\ zoomLog' = NoZoom
    /\ inputLog' = NoInput
    /\ UNCHANGED <<transformValues, isPanning, lastPosX, lastPosY, initialPinchDistance,
                   touches, zoomTimeout, platformVars, feedbackCount, events, styleVars>>

\* a mutation of StartsPan: Alt is not looked at
MiddleButtonOnly(e) == e.button = 1

\* a mutation of StartsPan: every button starts a pan
AnyButtonStartsPan(e) == TRUE

\* the test of handleContainerMouseDown (line 572)
StartsPan(e) == e.button = 1 \/ e.altKey

\* handleContainerMouseDown (lines 570-581)
MouseDown(e) ==
    /\ IF StartsPan(e)
       THEN /\ isPanning' = TRUE
            /\ lastPosX' = Whole(e.clientX)
            /\ lastPosY' = Whole(e.clientY)
       ELSE UNCHANGED <<isPanning, lastPosX, lastPosY>>
    /\ ApplyEffect(NoEffect @@ [input |-> [kind |-> "mouseDown", event |-> e]],
                   "mouseDown")
    /\ UNCHANGED <<initialPinchDistance, touches, idleVars, platformVars>>

\* handleContainerMouseMove (lines 586-596)
MouseMove(p) ==
    /\ IF isPanning
       THEN /\ ApplyEffect(PanEffect(transformValues, RSub(Whole(p[1]), lastPosX),
                                     RSub(Whole(p[2]), lastPosY)), "mouseMove")
            /\ lastPosX' = Whole(p[1])
            /\ lastPosY' = Whole(p[2])
       ELSE /\ ApplyEffect(NoEffect, "mouseMove")
            /\ UNCHANGED <<lastPosX, lastPosY>>
    /\ UNCHANGED <<isPanning, initialPinchDistance, touches, idleVars, platformVars>>

\* handleContainerMouseUp (lines 601-607)
MouseUp ==
    /\ IF isPanning
       THEN /\ isPanning' = FALSE
            /\ ApplyEffect([NoEffect EXCEPT
                   !.vpt = UpdateFabricViewportFromContainer(transformValues)],
                   "mouseUpEndsPan")
       ELSE /\ UNCHANGED isPanning
            /\ ApplyEffect(NoEffect, "mouseUp")
    /\ UNCHANGED <<lastPosX, lastPosY, initialPinchDistance, touches, idleVars, platformVars>>

TouchDistance(ts) == Hypot(ts[2][1] - ts[1][1], ts[2][2] - ts[1][2])
TouchCenterX(ts) == Rat(ts[1][1] + ts[2][1], 2)
TouchCenterY(ts) == Rat(ts[1][2] + ts[2][2], 2)

\* handleContainerTouchStart (lines 612-636); e.touches holds the new touch too
TouchStart(p) ==
    /\ touches' = Append(touches, p)
    /\ IF Len(touches') = 2
       THEN /\ initialPinchDistance' = TouchDistance(touches')
            /\ lastPosX' = TouchCenterX(touches')
            /\ lastPosY' = TouchCenterY(touches')
            /\ UNCHANGED isPanning
       ELSE IF Len(touches') = 1
       THEN /\ isPanning' = TRUE
            /\ lastPosX' = Whole(p[1])
            /\ lastPosY' = Whole(p[2])
            /\ UNCHANGED initialPinchDistance
       ELSE UNCHANGED <<isPanning, lastPosX, lastPosY, initialPinchDistance>>
    /\ ApplyEffect(NoEffect, "touchStart")
    /\ UNCHANGED <<idleVars, platformVars>>

\* a mutation of PinchThresholdExceeded: every change of the distance counts
AnyPinchChange(currentDistance, referenceDistance) ==
    currentDistance # referenceDistance

\* the distance changed significantly (line 664)
PinchThresholdExceeded(currentDistance, referenceDistance) ==
    Abs(currentDistance - referenceDistance) > 10

\* the two-finger branch of handleContainerTouchMove (lines 645-676); the factor is
\* currentDistance / initialPinchDistance whatever the reference is: over a reference
\* of 0 it is <<1, 0>>, which the comparisons of the clamp order above every number,
\* as JavaScript orders Infinity
PinchMove(ts) ==
    LET currentDistance == TouchDistance(ts)
        centerX == TouchCenterX(ts)
        centerY == TouchCenterY(ts)
        deltaX == RSub(centerX, lastPosX)
        deltaY == RSub(centerY, lastPosY)
        zooms == PinchThresholdExceeded(currentDistance, initialPinchDistance)
        zoomed == IF zooms
                  THEN ZoomEffect(transformValues, viewportTransform,
                                  Rat(currentDistance, initialPinchDistance),
                                  centerX, centerY)
                  ELSE NoEffect
    IN  Only({ [effect |-> [PanEffect(z.tv, deltaX, deltaY) EXCEPT
                               !.log = z.log, !.styles = z.styles \o @],
                distance |-> IF zooms THEN currentDistance ELSE initialPinchDistance,
                centerX |-> centerX, centerY |-> centerY] : z \in {zoomed} })

\* handleContainerTouchMove (lines 641-688): touch i moves to p
TouchMove(i, p) ==
    /\ i \in 1..Len(touches)
    /\ p # touches[i]
    /\ touches' = [touches EXCEPT ![i] = p]
    /\ IF Len(touches') = 2
       THEN \E m \in { PinchMove(touches') } :
                /\ ApplyEffect(m.effect, "touchMove")
                /\ initialPinchDistance' = m.distance
                /\ lastPosX' = m.centerX
                /\ lastPosY' = m.centerY
       ELSE IF Len(touches') = 1 /\ isPanning
       THEN /\ ApplyEffect(PanEffect(transformValues, RSub(Whole(p[1]), lastPosX),
                                     RSub(Whole(p[2]), lastPosY)), "touchMove")
            /\ lastPosX' = Whole(p[1])
            /\ lastPosY' = Whole(p[2])
            /\ UNCHANGED initialPinchDistance
       ELSE /\ ApplyEffect(NoEffect, "touchMove")
            /\ UNCHANGED <<lastPosX, lastPosY, initialPinchDistance>>
    /\ UNCHANGED <<isPanning, idleVars, platformVars>>

RemoveAt(seq, i) == [j \in 1..(Len(seq) - 1) |-> IF j < i THEN seq[j] ELSE seq[j + 1]]

\* handleContainerTouchEnd (lines 693-697): touch i is lifted
TouchEnd(i) ==
    /\ i \in 1..Len(touches)
    /\ touches' = RemoveAt(touches, i)
    /\ isPanning' = FALSE
    /\ initialPinchDistance' = 0
    /\ ApplyEffect([NoEffect EXCEPT
           !.vpt = UpdateFabricViewportFromContainer(transformValues)], "touchEnd")
    /\ UNCHANGED <<lastPosX, lastPosY, idleVars, platformVars>>

\* the click handlers of the zoom-out and zoom-in buttons (lines 857-862, 917-922)
ZoomButton(zoomFactor) ==
    /\ ApplyEffect(ZoomEffect(transformValues, viewportTransform, zoomFactor,
                              Rat(window.innerWidth, 2), Rat(window.innerHeight, 2)),
                   "zoomButton")
    /\ UNCHANGED <<isPanning, lastPosX, lastPosY, initialPinchDistance, touches, idleVars,
                   platformVars>>

ZoomOutButton == ZoomButton(<<4, 5>>)
ZoomInButton == ZoomButton(<<5, 4>>)

\* a click on the zoom percentage display: fitToScreen (lines 1020-1069)
FitToScreenClick ==
    /\ \E t \in { FitToScreen(window) } :
           ApplyEffect([tv |-> t, vpt |-> UpdateFabricViewportFromContainer(t),
                        log |-> NoZoom, styles |-> <<FitTransition>>], "fitToScreen")
    /\ UNCHANGED <<isPanning, lastPosX, lastPosY, initialPinchDistance, touches, idleVars,
                   platformVars>>

\* resetZoom (lines 1001-1015)
ResetZoomCall ==
    /\ ApplyEffect([tv |-> ResetZoom, vpt |-> UpdateFabricViewportFromContainer(ResetZoom),
                    log |-> NoZoom, styles |-> <<>>], "resetZoom")
    /\ UNCHANGED <<isPanning, lastPosX, lastPosY, initialPinchDistance, touches, idleVars,
                   platformVars>>

\* Timers fire in the order of their expiry times.  Of two pending timers the one set
\* earlier fires first unless its delay is longer; two timers set by the same handler
\* fire in the order of their delays.
MayFireNext(resets, i) ==
    \A j \in 1..Len(resets) :
        \/ j = i
        \/ resets[j].at > resets[i].at
        \/ resets[j].at < resets[i].at /\ resets[j].delay > resets[i].delay
        \/ resets[j].at = resets[i].at /\ resets[j].delay >= resets[i].delay

\* the callback of a transition-reset timer (lines 496-500, 767-771, 1058-1062)
TransitionResetFires(i) ==
    /\ i \in 1..Len(transitionResets)
    /\ MayFireNext(transitionResets, i)
    /\ transition' = "none"
    /\ transitionResets' = RemoveAt(transitionResets, i)
    /\ lastEvent' = "transitionReset"
    /\ zoomLog' = NoZoom
    /\ inputLog' = [kind |-> "transitionReset", timer |-> transitionResets[i],
                    cleared |-> transition,
                    pending |-> { transitionResets'[j] : j \in 1..Len(transitionResets') }]
    /\ UNCHANGED <<transformValues, viewportTransform, isPanning, lastPosX, lastPosY,
                   initialPinchDistance, touches, idleVars, platformVars, feedbackCount,
                   events>>

-----------------------------------------------------------------------------
(* SVG export.                                                             *)

MaxExports == 2

\* setViewportTransform([1, 0, 0, 1, 0, 0]) (line 2427)
IdentityViewport == [scale |-> One, translateX |-> Whole(0), translateY |-> Whole(0)]

\* originalWidth || fieldWidth (lines 2465-2466): zero is falsy
OrElse(original, fallback) == IF original = 0 THEN fallback ELSE original

\* toSVG (lines 2421-2478); super.toSVG returns the SVG or throws.  The catch block
\* logs the error and throws a new one.
ToSVG(outcome) ==
    /\ exports' = exports + 1
    /\ exportLog' = [done |-> TRUE, outcome |-> outcome,
                     originalVPT |-> viewportTransform, originalSize |-> canvasSize]
    /\ IF outcome = "svg"
       THEN /\ viewportTransform' = viewportTransform
            /\ canvasSize' = [width |-> OrElse(canvasSize.width, fieldProperties.width),
                              height |-> OrElse(canvasSize.height, fieldProperties.height)]
       ELSE /\ viewportTransform' = IdentityViewport
            /\ canvasSize' = [width |-> fieldProperties.width,
                              height |-> fieldProperties.height]
    /\ lastEvent' = "toSVG"
    /\ zoomLog' = NoZoom
    /\ inputLog' = NoInput
    /\ UNCHANGED <<transformValues, isPanning, lastPosX, lastPosY, initialPinchDistance,
                   touches, idleVars, platformVars, feedbackCount, events, styleVars>>

-----------------------------------------------------------------------------
(* Settings and the field grid.                                            *)

MaxSettingOps == 2

\* this.uiSettings while the constructor has not assigned it
Undefined == [undefined |-> TRUE]

\* field geometries: the default one and a wider field
FieldGeometries ==
    { Field, [Field EXCEPT !.width = 20, !.imageFillOrFit = "fill"] }

\* this._backgroundImage while it is null, and the images that the lookup may return:
\* one wider and one narrower than the fields
NoImage == [present |-> FALSE, width |-> 0, height |-> 0]
FieldImages ==
    { [present |-> TRUE, width |-> 8, height |-> 2],
      [present |-> TRUE, width |-> 4, height |-> 4] }

\* the answers of window.electron.getFieldPropertiesImage(): an image, no image
\* (data null) or a failure
ImageResponses ==
    { [success |-> TRUE, data |-> img] : img \in FieldImages \cup {NoImage} }
        \cup { [success |-> FALSE] }

\* offset and scale of the image on the field (lines 2244-2280)
ImageValues(image, geometry, imgAspectRatio) ==
    LET width == Whole(geometry.width)
        height == Whole(geometry.height)
        canvasAspectRatio == RDiv(width, height)
        byHeight == RDiv(height, Whole(image.height))
        byWidth == RDiv(width, Whole(image.width))
        Centred(size, imageSize, scale) ==
            RDiv(RSub(size, RMul(Whole(imageSize), scale)), Whole(2))
        wider == RLt(canvasAspectRatio, imgAspectRatio)
    IN  IF (geometry.imageFillOrFit = "fill") = wider
        THEN [left |-> Centred(width, image.width, byHeight), top |-> Whole(0),
              scale |-> byHeight, imgAspectRatio |-> imgAspectRatio]
        ELSE [left |-> Whole(0), top |-> Centred(height, image.height, byWidth),
              scale |-> byWidth, imgAspectRatio |-> imgAspectRatio]

\* !this._backgroundImage (line 2236)
NoBackgroundImage(image) == ~image.present

\* a mutation of RefreshBackgroundImageValues: without an image the stored values
\* are dropped
RefreshBackgroundImageValuesClearing(image, values, geometry, newAspectRatio) ==
    IF NoBackgroundImage(image) THEN [outcome |-> "returned", values |-> Undefined]
    ELSE IF newAspectRatio = Undefined /\ values = Undefined
    THEN [outcome |-> "error", values |-> values]
    ELSE [outcome |-> "refreshed",
          values |-> ImageValues(image, geometry,
                                 IF newAspectRatio # Undefined THEN newAspectRatio
                                 ELSE values.imgAspectRatio)]

\* refreshBackgroundImageValues(newAspectRatio) (lines 2234-2281): how the call ends
\* and the values it leaves
RefreshBackgroundImageValues(image, values, geometry, newAspectRatio) ==
    IF NoBackgroundImage(image) THEN [outcome |-> "returned", values |-> values]
    ELSE IF newAspectRatio = Undefined /\ values = Undefined
    THEN [outcome |-> "error", values |-> values]
    ELSE [outcome |-> "refreshed",
          values |-> ImageValues(image, geometry,
                                 IF newAspectRatio # Undefined THEN newAspectRatio
                                 ELSE values.imgAspectRatio)]

\* the background image of createFieldGrid (lines 1564-1581): the image that goes
\* into the grid, placed by the refreshed values, and the values
CreateFieldGridImage(geometry, image, values) ==
    IF geometry.showFieldImage /\ image.present
    THEN LET refreshed ==
                 RefreshBackgroundImageValues(image, values, geometry, Undefined).values
         IN  [values |-> refreshed,
              image |-> IF refreshed = Undefined THEN image
                        ELSE [present |-> TRUE, width |-> image.width,
                              height |-> image.height, scale |-> refreshed.scale,
                              left |-> refreshed.left, top |-> refreshed.top]]
    ELSE [values |-> values, image |-> NoImage]

\* sensitivities as the preferences store may hold them; 0 stands for a missing one
SensitivitySettings == { Whole(0), <<1, 20>>, One, Whole(5) }

\* the UiSettings objects handed to the constructor and to setUiSettings
UiSettingsOf(gridLines, halfLines, lockX, trackpadMode, pan, trackpadPan, zoom) ==
    [gridLines |-> gridLines, halfLines |-> halfLines, lockX |-> lockX, lockY |-> FALSE,
     mouseSettings |-> [trackpadMode |-> trackpadMode, panSensitivity |-> pan,
                        trackpadPanSensitivity |-> trackpadPan,
                        zoomSensitivity |-> zoom]]

\* lockMovementX and lockMovementY as setActiveObject and setUiSettings assign them
\* (lines 1148-1149, 2102-2103)
LockMovementOf(settings) == [x |-> settings.lockX, y |-> settings.lockY]

\* a mutation of ApplyLocks: new settings leave the active object as it is
KeepLocks(active, current, settings) == current

\* if (activeObject) { ... } in setUiSettings (lines 2098-2104)
ApplyLocks(active, current, settings) ==
    IF active.kind # "none" THEN LockMovementOf(settings) ELSE current

\* the value a setting is given when the settings object holds it: if (setting) ...
IfSet(setting, current) == IF setting # Whole(0) THEN setting ELSE current

\* a mutation of SkipsCheckpoint: no checkpoint is skipped
SkipsNoCheckpoint(checkpoint) == FALSE

\* !xCheckpoint.visible, !yCheckpoint.visible (lines 1725, 1738, 1761)
SkipsCheckpoint(checkpoint) == ~checkpoint.visible

\* the stepsFromCenterFront of a y-checkpoint, a rational
StepsOf(checkpoint) == checkpoint.stepsFromCenterFront

\* base + steps * pixelsPerStep, an integer when it is whole
PixelsAt(base, checkpoint, pixelsPerStep) ==
    LET p == RAdd(Whole(base), RMul(StepsOf(checkpoint), Whole(pixelsPerStep)))
    IN  IF p[2] = 1 THEN p[1] ELSE p

\* Array.prototype.sort with (a, b) => b.stepsFromCenterFront -
\* a.stepsFromCenterFront (lines 1585-1587): descending and stable
SortedYCheckpoints(ys) ==
    LET Insert(sorted, c) ==
            LET after == { i \in DOMAIN sorted : RLt(StepsOf(sorted[i]), StepsOf(c)) }
                at == IF after = {} THEN Len(sorted) + 1
                      ELSE CHOOSE i \in after : \A j \in after : i <= j
            IN  SubSeq(sorted, 1, at - 1) \o <<c>> \o SubSeq(sorted, at, Len(sorted))
        F[k \in 0..Len(ys)] == IF k = 0 THEN <<>> ELSE Insert(F[k - 1], ys[k])
    IN  F[Len(ys)]

\* the field properties after createFieldGrid has sorted their y-checkpoints in
\* place (line 1585)
SortedField(geometry) ==
    [geometry EXCEPT !.yCheckpoints = SortedYCheckpoints(@)]

\* firstVisibleYCheckpoint (lines 1588-1599), of sorted y-checkpoints
FirstVisibleYCheckpoint(sorted) ==
    LET F[k \in 0..Len(sorted)] ==
            IF k = 0 THEN sorted[Len(sorted)]
            ELSE IF sorted[k].visible /\ RLt(StepsOf(F[k - 1]), StepsOf(sorted[k]))
            THEN sorted[k]
            ELSE F[k - 1]
    IN  F[Len(sorted)]

\* a mutation of NotOnStep: every offset counts as whole
AlwaysOnStep(checkpoint) == FALSE

\* stepsFromCenterFront !== 0 && stepsFromCenterFront % 1 !== 0 (lines 1602-1603)
NotOnStep(checkpoint) == StepsOf(checkpoint)[2] # 1

\* yCheckpointToStartGridFrom (lines 1600-1605), of sorted y-checkpoints
YCheckpointToStartGridFrom(sorted) ==
    IF NotOnStep(FirstVisibleYCheckpoint(sorted))
    THEN FirstVisibleYCheckpoint(sorted)
    ELSE sorted[1]

RECURSIVE LinesDownFrom(_, _)
\* the values of i in for (i = from; i > 0; i -= pixelsPerStep)
LinesDownFrom(from, pixelsPerStep) ==
    IF RLe(from, Whole(0)) THEN <<>>
    ELSE <<from>> \o LinesDownFrom(RSub(from, Whole(pixelsPerStep)), pixelsPerStep)

\* the y of the Y grid lines (lines 1632-1644), as rationals, of a field with
\* sorted y-checkpoints
YGridLines(geometry) ==
    LET start == YCheckpointToStartGridFrom(geometry.yCheckpoints)
    IN  LinesDownFrom(RAdd(Whole(geometry.centerFrontPoint.yPixels),
                           RMul(StepsOf(start), Whole(geometry.pixelsPerStep))),
                      geometry.pixelsPerStep)

Line(x1, y1, x2, y2, props) ==
    [x1 |-> x1, y1 |-> y1, x2 |-> x2, y2 |-> y2, props |-> props]

\* the hashes of the yard line at x (lines 1735-1757)
Hashes(geometry, x) ==
    LET hashWidth == 20
        ys == geometry.yCheckpoints
        x1 == IF x - hashWidth \div 2 < 0 THEN 0 ELSE x - hashWidth \div 2
        x2 == IF x + hashWidth \div 2 > geometry.width THEN geometry.width
              ELSE x + hashWidth \div 2
        F[k \in 0..Len(ys)] ==
            IF k = 0 THEN <<>>
            ELSE IF SkipsCheckpoint(ys[k]) THEN F[k - 1]
            ELSE LET y == PixelsAt(geometry.centerFrontPoint.yPixels - 1, ys[k],
                                   geometry.pixelsPerStep)
                 IN  Append(F[k - 1],
                            Line(x1, y, x2 + 1, y,
                                 IF ys[k].useAsReference THEN "yCheckpointProps"
                                 ELSE "ySecondaryCheckpointProps"))
    IN  F[Len(ys)]

\* the lines that createFieldGrid draws for the checkpoints (lines 1724-1771), in
\* the order of fieldArray: for each visible x-checkpoint its yard line and, with
\* hashes, its hashes; without hashes a line across the field for each visible
\* y-checkpoint.  The grid lines and half lines have other properties.
CheckpointLines(geometry) ==
    LET xs == geometry.xCheckpoints
        ys == geometry.yCheckpoints
        F[k \in 0..Len(xs)] ==
            IF k = 0 THEN <<>>
            ELSE IF SkipsCheckpoint(xs[k]) THEN F[k - 1]
            ELSE LET x == geometry.centerFrontPoint.xPixels
                          + xs[k].stepsFromCenterFront * geometry.pixelsPerStep
                 IN  Append(F[k - 1], Line(x, 0, x, geometry.height, "xCheckpointProps"))
                         \o (IF geometry.useHashes THEN Hashes(geometry, x) ELSE <<>>)
        G[k \in 0..Len(ys)] ==
            IF k = 0 THEN <<>>
            ELSE IF SkipsCheckpoint(ys[k]) THEN G[k - 1]
            ELSE LET y == PixelsAt(geometry.centerFrontPoint.yPixels, ys[k],
                                   geometry.pixelsPerStep)
                 IN  Append(G[k - 1], Line(0, y, geometry.width, y, "xCheckpointProps"))
    IN  F[Len(xs)] \o (IF geometry.useHashes THEN <<>> ELSE G[Len(ys)])

\* a mutation of RenderFieldGrid: the new grid keeps fabric's default, caching on
RenderFieldGridCached(settings, geometry, builds, image) ==
    [id |-> builds + 1,
     gridLines |-> IF "gridLines" \in DOMAIN settings THEN settings.gridLines ELSE TRUE,
     halfLines |-> IF "halfLines" \in DOMAIN settings THEN settings.halfLines ELSE TRUE,
     builtFrom |-> geometry,
     fieldProperties |-> SortedField(geometry),
     image |-> image,
     yGridStart |-> YCheckpointToStartGridFrom(SortedYCheckpoints(geometry.yCheckpoints)),
     yGridLines |-> IF "gridLines" \in DOMAIN settings /\ ~settings.gridLines THEN <<>>
                    ELSE YGridLines(SortedField(geometry)),
     checkpointLines |-> CheckpointLines(SortedField(geometry)),
     objectCaching |-> TRUE]

\* renderFieldGrid (lines 1492-1504): the grid object that replaces staticGridRef,
\* with the background image that createFieldGrid has put into it.  builtFrom is
\* the field properties as the build found them, fieldProperties the same object
\* as the build leaves it, with its y-checkpoints sorted.
RenderFieldGrid(settings, geometry, builds, image) ==
    [id |-> builds + 1,
     gridLines |-> IF "gridLines" \in DOMAIN settings THEN settings.gridLines ELSE TRUE,
     halfLines |-> IF "halfLines" \in DOMAIN settings THEN settings.halfLines ELSE TRUE,
     builtFrom |-> geometry,
     fieldProperties |-> SortedField(geometry),
     image |-> image,
     yGridStart |-> YCheckpointToStartGridFrom(SortedYCheckpoints(geometry.yCheckpoints)),
     yGridLines |-> IF "gridLines" \in DOMAIN settings /\ ~settings.gridLines THEN <<>>
                    ELSE YGridLines(SortedField(geometry)),
     checkpointLines |-> CheckpointLines(SortedField(geometry)),
     objectCaching |-> FALSE]

\* the grid visibility flags of the two settings objects differ (lines 2125-2128)
GridSettingsChanged(oldUiSettings, newUiSettings) ==
    \/ oldUiSettings.gridLines # newUiSettings.gridLines
    \/ oldUiSettings.halfLines # newUiSettings.halfLines

\* Math.max(low, Math.min(high, value)) (lines 2373, 2381, 2389)
ClampSensitivity(value, low, high) == RMax(low, RMin(high, value))

\* what the settings operations leave alone
SettingsFrame ==
    UNCHANGED <<transformValues, viewportTransform, isPanning, lastPosX, lastPosY,
                initialPinchDistance, touches, zoomTimeout, pendingTimers, isMac, window,
                feedbackCount, events, zoomLog, inputLog, styleVars>>

\* setUiSettings (lines 2097-2140); the lock flags go to the active object and the
\* cursors to the DOM, neither of which is part of this state
SetUiSettings(settings) ==
    /\ uiSettings' = settings
    /\ lockMovement' = ApplyLocks(activeObject, lockMovement, settings)
    /\ UNCHANGED selCallVars
    /\ trackpadModeEnabled' = settings.mouseSettings.trackpadMode
    /\ panSensitivity' = IfSet(settings.mouseSettings.panSensitivity, panSensitivity)
    /\ trackpadPanSensitivity' =
           IfSet(settings.mouseSettings.trackpadPanSensitivity, trackpadPanSensitivity)
    /\ zoomSensitivity' = IfSet(settings.mouseSettings.zoomSensitivity, zoomSensitivity)
    /\ IF GridSettingsChanged(uiSettings, settings)
       THEN \E inGrid \in { CreateFieldGridImage(fieldProperties, backgroundImage,
                                                 bgImageValues) } :
                /\ staticGridRef' = RenderFieldGrid(settings, fieldProperties, gridBuilds,
                                                    inGrid.image)
                /\ bgImageValues' = inGrid.values
                /\ gridBuilds' = gridBuilds + 1
       ELSE UNCHANGED <<staticGridRef, gridBuilds, bgImageValues>>
    /\ lastEvent' = "setUiSettings"
    /\ settingOps' = settingOps + 1
    /\ UNCHANGED <<fieldProperties, backgroundImage, imageLog>>
    /\ SettingsFrame

\* set fieldProperties (lines 2161-2164)
SetFieldProperties(geometry) ==
    /\ fieldProperties' = SortedField(geometry)
    /\ \E inGrid \in { CreateFieldGridImage(geometry, backgroundImage, bgImageValues) } :
           /\ staticGridRef' = RenderFieldGrid(uiSettings, geometry, gridBuilds,
                                               inGrid.image)
           /\ bgImageValues' = inGrid.values
    /\ gridBuilds' = gridBuilds + 1
    /\ lastEvent' = "setFieldProperties"
    /\ settingOps' = settingOps + 1
    /\ UNCHANGED <<uiSettings, platformVars, backgroundImage, imageLog>>
    /\ SettingsFrame

\* refreshBackgroundImage (lines 2172-2227), from the answer of the image lookup on;
\* the image of the answer loads at once.  this.remove(this._backgroundImage) finds
\* no such object on the canvas: the image is a member of the grid group.
RefreshBackgroundImage(response) ==
    /\ IF response.success /\ response.data.present
       THEN \E img \in { response.data } :
            \E set \in { RefreshBackgroundImageValues(img, bgImageValues, fieldProperties,
                              Rat(img.width, img.height)) } :
            \E inGrid \in { CreateFieldGridImage(fieldProperties, img, set.values) } :
                /\ backgroundImage' = img
                /\ bgImageValues' = inGrid.values
                /\ staticGridRef' = RenderFieldGrid(uiSettings, fieldProperties, gridBuilds,
                                                    inGrid.image)
                /\ gridBuilds' = gridBuilds + 1
                /\ imageLog' = [op |-> "refreshBackgroundImage", response |-> response,
                                errors |-> 0, outcome |-> "returned"]
       ELSE /\ backgroundImage' = NoImage
            /\ imageLog' = [op |-> "refreshBackgroundImage", response |-> response,
                            errors |-> IF response.success THEN 0 ELSE 2,
                            outcome |-> "returned"]
            /\ UNCHANGED <<staticGridRef, gridBuilds, bgImageValues>>
    /\ lastEvent' = "refreshBackgroundImage"
    /\ settingOps' = settingOps + 1
    /\ UNCHANGED <<uiSettings, fieldProperties, platformVars>>
    /\ SettingsFrame

\* a call of the public method refreshBackgroundImageValues (lines 2234-2281)
RefreshBackgroundImageValuesCall(newAspectRatio) ==
    /\ \E call \in { RefreshBackgroundImageValues(backgroundImage, bgImageValues,
                                                   fieldProperties, newAspectRatio) } :
           /\ bgImageValues' = call.values
           /\ imageLog' = [op |-> "refreshBackgroundImageValues",
                           newAspectRatio |-> newAspectRatio, image |-> backgroundImage,
                           before |-> bgImageValues, errors |-> 0,
                           outcome |-> call.outcome]
    /\ lastEvent' = "refreshBackgroundImageValues"
    /\ settingOps' = settingOps + 1
    /\ UNCHANGED <<uiSettings, fieldProperties, platformVars, staticGridRef, gridBuilds,
                   backgroundImage>>
    /\ SettingsFrame

\* what the sensitivity setters and setTrackpadMode leave alone
SetterFrame ==
    /\ SettingsFrame
    /\ UNCHANGED <<staticGridRef, gridBuilds, uiSettings, fieldProperties, imageVars>>

\* setPanSensitivity (lines 2372-2374)
SetPanSensitivity(value) ==
    /\ panSensitivity' = ClampSensitivity(value, <<1, 10>>, Whole(3))
    /\ lastEvent' = "setPanSensitivity"
    /\ settingOps' = settingOps + 1
    /\ UNCHANGED <<trackpadPanSensitivity, zoomSensitivity, trackpadModeEnabled>>
    /\ SetterFrame

\* setTrackpadPanSensitivity (lines 2380-2382)
SetTrackpadPanSensitivity(value) ==
    /\ trackpadPanSensitivity' = ClampSensitivity(value, <<1, 10>>, Whole(3))
    /\ lastEvent' = "setTrackpadPanSensitivity"
    /\ settingOps' = settingOps + 1
    /\ UNCHANGED <<panSensitivity, zoomSensitivity, trackpadModeEnabled>>
    /\ SetterFrame

\* setZoomSensitivity (lines 2388-2390)
SetZoomSensitivity(value) ==
    /\ zoomSensitivity' = ClampSensitivity(value, <<1, 100>>, Half)
    /\ lastEvent' = "setZoomSensitivity"
    /\ settingOps' = settingOps + 1
    /\ UNCHANGED <<panSensitivity, trackpadPanSensitivity, trackpadModeEnabled>>
    /\ SetterFrame

\* setTrackpadMode (lines 2356-2358)
SetTrackpadMode(enabled) ==
    /\ trackpadModeEnabled' = enabled
    /\ lastEvent' = "setTrackpadMode"
    /\ settingOps' = settingOps + 1
    /\ UNCHANGED <<panSensitivity, trackpadPanSensitivity, zoomSensitivity>>
    /\ SetterFrame

-----------------------------------------------------------------------------
(* Click or drag.  The canvas holds the two thresholds and the record of the *)
(* pointer-down; the listeners that fill the record and compare with it     *)
(* are modelled from the specification.                                     *)

DRAG_TIMER_MILLISECONDS == 300
DISTANCE_THRESHOLD == 20

\* positions of the pointer and times of the clock, in milliseconds
PointerDownPoints == { <<0, 0>>, <<10, 5>>, <<-7, 3>> }
PointerDownTimes == { 0, 1000 }
PointerUpOffsets == { <<0, 0>>, <<12, 16>>, <<-20, 0>>, <<21, 0>>, <<12, 17>>, <<0, -40>> }
PointerUpDelays == { 0, 299, 300, 301, 600 }

\* a mutation of IsClick: the thresholds themselves count as exceeded
IsClickBelowThresholds(elapsed, deltaX, deltaY) ==
    /\ elapsed < DRAG_TIMER_MILLISECONDS
    /\ deltaX * deltaX + deltaY * deltaY < DISTANCE_THRESHOLD * DISTANCE_THRESHOLD

\* the pointer-up came within the time threshold and within the distance threshold of
\* the start position; the distance is compared by its square
IsClick(elapsed, deltaX, deltaY) ==
    /\ elapsed <= DRAG_TIMER_MILLISECONDS
    /\ deltaX * deltaX + deltaY * deltaY <= DISTANCE_THRESHOLD * DISTANCE_THRESHOLD

\* a pointer-down records the start position and the time
PointerDown(p, time) ==
    /\ selectDragStart' = [x |-> p[1], y |-> p[2], time |-> time]
    /\ UNCHANGED clickLog

\* a pointer-up classifies the pair as a click or as a drag
PointerUp(p, time) ==
    /\ time >= selectDragStart.time
    /\ LET elapsed == time - selectDragStart.time
           deltaX == p[1] - selectDragStart.x
           deltaY == p[2] - selectDragStart.y
       IN  clickLog' = [done |-> TRUE, elapsed |-> elapsed, deltaX |-> deltaX,
                        deltaY |-> deltaY,
                        kind |-> IF IsClick(elapsed, deltaX, deltaY) THEN "click"
                                 ELSE "drag"]
    /\ UNCHANGED selectDragStart

-----------------------------------------------------------------------------
(* Scene synchronizer: renderMarchers.  A call first awaits the section    *)
(* appearances; everything after the await runs without interruption.      *)

MaxRenders == 3
MaxPending == 2

MarcherIds == {1, 2}
\* the pages whose MarcherPage rows are rendered; marcher m stands at
\* x = 10 * m + page, y = page on that page
RenderPages == {0, 1}
MarcherPageOf(m, page) == [marcher_id |-> m, x |-> 10 * m + page, y |-> page]

RECURSIVE DistinctSeqs(_, _)
\* the sequences of at most n distinct elements of S
DistinctSeqs(S, n) ==
    IF n = 0 THEN { <<>> }
    ELSE { <<>> } \cup
         UNION { { <<x>> \o t : t \in DistinctSeqs(S \ {x}, n - 1) } : x \in S }

\* currentMarcherPages: rows of one page, for any marchers in any order
RowSeqs ==
    { [i \in 1..Len(ms) |-> MarcherPageOf(ms[i], page)] :
        ms \in DistinctSeqs(MarcherIds, Cardinality(MarcherIds)), page \in RenderPages }

\* allMarchers: the roster, given by its marcher ids
Rosters == { MarcherIds, MarcherIds \ {2} }

RenderArgs == [currentMarcherPages : RowSeqs, allMarchers : Rosters]

Range(f) == { f[i] : i \in DOMAIN f }

\* a map that finds no CanvasMarcher on the canvas
EmptyCanvasMarchersMap(objs) == [m \in {} |-> m]

\* canvasMarchersMap (lines 1239-1241): marcher id -> the CanvasMarcher listed
\* last for it
CanvasMarchersMap(objs) ==
    [m \in { objs[i].marcherId : i \in DOMAIN objs } |->
        objs[CHOOSE i \in DOMAIN objs :
                /\ objs[i].marcherId = m
                /\ \A j \in DOMAIN objs : objs[j].marcherId = m => j <= i]]

\* CanvasMarcher.setMarcherCoords(marcherPage) on the drawable with identity id
SetMarcherCoords(objs, id, marcherPage) ==
    [i \in DOMAIN objs |->
        IF objs[i].id = id
        THEN [objs[i] EXCEPT !.x = marcherPage.x, !.y = marcherPage.y]
        ELSE objs[i]]

RECURSIVE RenderRows(_, _, _, _, _)
\* the loop over currentMarcherPages (lines 1246-1278), from row k on; logged holds
\* the rows given to console.error, in order
RenderRows(objs, nextId, map, args, k) ==
    IF k > Len(args.currentMarcherPages)
    THEN [objs |-> objs, nextId |-> nextId, logged |-> <<>>]
    ELSE LET marcherPage == args.currentMarcherPages[k]
             m == marcherPage.marcher_id
         IN  IF m \notin DOMAIN map
             THEN IF m \notin args.allMarchers
                  THEN [RenderRows(objs, nextId, map, args, k + 1) EXCEPT
                            !.logged = <<marcherPage>> \o @]
                  ELSE RenderRows(
                           Append(objs, [id |-> nextId, marcherId |-> m,
                                         x |-> marcherPage.x, y |-> marcherPage.y]),
                           nextId + 1, map, args, k + 1)
             ELSE RenderRows(SetMarcherCoords(objs, map[m].id, marcherPage),
                             nextId, map, args, k + 1)

SelectSeq2(seq, keep) ==
    LET F[i \in 0..Len(seq)] ==
            IF i = 0 THEN <<>>
            ELSE IF seq[i].id \in keep THEN Append(F[i - 1], seq[i]) ELSE F[i - 1]
    IN  F[Len(seq)]

\* the removal step (lines 1280-1291)
RemoveStale(objs, map, args) ==
    LET marcherPageMarcherIds == { r.marcher_id : r \in Range(args.currentMarcherPages) }
        stale == { map[m].id : m \in { n \in DOMAIN map : n \notin marcherPageMarcherIds } }
    IN  IF Cardinality(marcherPageMarcherIds) # Cardinality(DOMAIN map)
        THEN SelectSeq2(objs, { o.id : o \in Range(objs) } \ stale)
        ELSE objs

\* a mutation of RenderMarchersBody: the canvas is cleared and every row is drawn
\* anew
RenderMarchersBodyRedrawing(objs, nextId, args) ==
    LET looped == RenderRows(<<>>, nextId, EmptyCanvasMarchersMap(objs), args, 1)
    IN  [objs |-> looped.objs, nextId |-> looped.nextId, logged |-> looped.logged]

\* the part of renderMarchers after the await (lines 1238-1297)
RenderMarchersBody(objs, nextId, args) ==
    LET map == CanvasMarchersMap(objs)
        looped == RenderRows(objs, nextId, map, args, 1)
    IN  [objs |-> RemoveStale(looped.objs, map, args), nextId |-> looped.nextId,
         logged |-> looped.logged]

\* a mutation of RenderMarchersCall: the drawables are made before the lookup
RenderMarchersCallEager(args) ==
    /\ renders < MaxRenders
    /\ Len(pendingRenders) < MaxPending
    /\ pendingRenders' = Append(pendingRenders, args)
    /\ renders' = renders + 1
    /\ \E r \in { RenderMarchersBody(canvasMarchers, nextObjectId, args) } :
           canvasMarchers' = r.objs /\ nextObjectId' = r.nextId
    /\ UNCHANGED <<renderLog, prevRenderArgs>>

\* renderMarchers is called: it runs up to the await (lines 1233-1236)
RenderMarchersCall(args) ==
    /\ renders < MaxRenders
    /\ Len(pendingRenders) < MaxPending
    /\ pendingRenders' = Append(pendingRenders, args)
    /\ renders' = renders + 1
    /\ UNCHANGED <<canvasMarchers, nextObjectId, renderLog, prevRenderArgs>>

\* the appearance lookup of pending call i completes and the call runs to its end
RenderMarchersResume(i) ==
    /\ i \in 1..Len(pendingRenders)
    /\ LET args == pendingRenders[i]
           r == RenderMarchersBody(canvasMarchers, nextObjectId, args)
       IN  /\ canvasMarchers' = r.objs
           /\ nextObjectId' = r.nextId
           /\ renderLog' = [done |-> TRUE, args |-> args, before |-> canvasMarchers,
                            after |-> r.objs, logged |-> r.logged]
           /\ prevRenderArgs' = IF renderLog.done THEN <<renderLog.args>> ELSE <<>>
    /\ pendingRenders' = RemoveAt(pendingRenders, i)
    /\ UNCHANGED renders

-----------------------------------------------------------------------------
(* Marcher shapes: renderMarcherShapes.                                    *)

MaxShapeOps == 2

ShapeIds == {1, 2, 3}
\* the ShapePage of shape s on a page
ShapePageOf(s, page) == [shape_id |-> s, page_id |-> page]

\* shapePages: the ShapePages of one page, at most one for a shape, in any order
ShapePageSeqs ==
    { [i \in 1..Len(ss) |-> ShapePageOf(ss[i], page)] :
        ss \in DistinctSeqs(ShapeIds, Cardinality(ShapeIds)), page \in RenderPages }

\* existingMarcherShapeMap (lines 1183-1185): shape id -> the MarcherShape listed
\* last for it
ExistingMarcherShapeMap(shapes) ==
    [s \in { shapes[i].shapePage.shape_id : i \in DOMAIN shapes } |->
        shapes[CHOOSE i \in DOMAIN shapes :
                  /\ shapes[i].shapePage.shape_id = s
                  /\ \A j \in DOMAIN shapes : shapes[j].shapePage.shape_id = s => j <= i]]

\* a mutation of RemovedShapeIds: no shape is found to be removed
NoRemovedShapeIds(map, shapePages) == {}

\* removedShapeIds (lines 1188-1196)
RemovedShapeIds(map, shapePages) ==
    { s \in DOMAIN map : s \notin { sp.shape_id : sp \in Range(shapePages) } }

\* MarcherShape.destroy() for the shapes of the map that are removed: the identities
\* of the objects destroyed, one call for each entry of the map (lines 1190-1196)
DestroyRemoved(map, removed) ==
    LET F[S \in SUBSET removed] ==
            IF S = {} THEN <<>>
            ELSE LET s == CHOOSE x \in S : \A y \in S : x <= y
                 IN  <<map[s].id>> \o F[S \ {s}]
    IN  F[removed]

\* this.marcherShapes.filter(...) (lines 1197-1201)
FilterRemoved(shapes, removed) ==
    LET F[i \in 0..Len(shapes)] ==
            IF i = 0 THEN <<>>
            ELSE IF shapes[i].shapePage.shape_id \in removed THEN F[i - 1]
            ELSE Append(F[i - 1], shapes[i])
    IN  F[Len(shapes)]

\* MarcherShape.setShapePage(shapePage) and refreshMarchers() on the object with
\* identity id
SetShapePage(shapes, id, shapePage) ==
    [i \in DOMAIN shapes |->
        IF shapes[i].id = id THEN [shapes[i] EXCEPT !.shapePage = shapePage]
        ELSE shapes[i]]

RECURSIVE ShapeRows(_, _, _, _, _)
\* the loop over shapePages (lines 1203-1218), from entry k on
ShapeRows(shapes, nextId, map, shapePages, k) ==
    IF k > Len(shapePages) THEN [shapes |-> shapes, nextId |-> nextId]
    ELSE LET shapePage == shapePages[k]
         IN  IF shapePage.shape_id \in DOMAIN map
             THEN ShapeRows(SetShapePage(shapes, map[shapePage.shape_id].id, shapePage),
                            nextId, map, shapePages, k + 1)
             ELSE ShapeRows(Append(shapes, [id |-> nextId, shapePage |-> shapePage]),
                            nextId + 1, map, shapePages, k + 1)

\* renderMarcherShapes({ shapePages }) (lines 1182-1219)
RenderMarcherShapes(shapePages) ==
    /\ LET map == ExistingMarcherShapeMap(marcherShapes)
           removed == RemovedShapeIds(map, shapePages)
           kept == IF removed # {} THEN FilterRemoved(marcherShapes, removed)
                   ELSE marcherShapes
           r == ShapeRows(kept, nextObjectId, map, shapePages, 1)
       IN  /\ marcherShapes' = r.shapes
           /\ nextObjectId' = r.nextId
           /\ shapeLog' = [done |-> TRUE, shapePages |-> shapePages,
                           before |-> marcherShapes, after |-> r.shapes,
                           destroyed |-> DestroyRemoved(map, removed)]
    /\ shapeOps' = shapeOps + 1
    /\ UNCHANGED <<canvasMarchers, pendingRenders, renders, renderLog, prevRenderArgs>>

-----------------------------------------------------------------------------
(* MarcherPage table: updateMarcherPages and the lock of a MarcherPage.    *)

MaxDbOps == 2
MaxBatch == 2

PageIds == {1, 2}
MarcherPageKeys == MarcherIds \X PageIds
Positions == { <<0, 0>>, <<5, 7>> }

\* ModifiedMarcherPageArgs: two positions for one row, and one position for a row
\* of the same marcher on another page and for a row of another marcher
MarcherPageUpdates ==
    { [marcher_id |-> 1, page_id |-> 1, x |-> p[1], y |-> p[2]] : p \in Positions }
    \cup { [marcher_id |-> 1, page_id |-> 2, x |-> 0, y |-> 0],
           [marcher_id |-> 2, page_id |-> 1, x |-> 5, y |-> 7] }

RECURSIVE SeqsUpTo(_, _)
SeqsUpTo(S, n) ==
    IF n = 0 THEN { <<>> }
    ELSE LET shorter == SeqsUpTo(S, n - 1)
         IN  shorter \cup { Append(t, x) : t \in { u \in shorter : Len(u) = n - 1 }, x \in S }

\* getSpmByMarcherPage(...).data, by the record it finds: one or none
GetSpmByMarcherPage(spms, marcherId, pageId) ==
    IF <<marcherId, pageId>> \in spms THEN <<marcherId, pageId>> ELSE <<>>

\* isLocked (lines 113-136): response.data !== null
IsLocked(spms, marcherId, pageId) ==
    GetSpmByMarcherPage(spms, marcherId, pageId) # <<>>

\* a lock test that finds no update locked
NeverLocked(spms, update, isChildAction) == FALSE

\* whether updateMarcherPages leaves an update out (lines 171-185)
MpIsLocked(spms, update, isChildAction) ==
    IF ~isChildAction THEN IsLocked(spms, update.marcher_id, update.page_id) ELSE FALSE

RECURSIVE NewUpdatedItems(_, _, _, _)
\* the loop of updateMarcherPages (lines 158-186), from update k on
NewUpdatedItems(spms, updates, isChildAction, k) ==
    IF k > Len(updates) THEN <<>>
    ELSE IF ~MpIsLocked(spms, updates[k], isChildAction)
         THEN <<updates[k]>> \o NewUpdatedItems(spms, updates, isChildAction, k + 1)
         ELSE NewUpdatedItems(spms, updates, isChildAction, k + 1)

RECURSIVE UpdateItems(_, _, _)
\* DbActions.updateItems: every item is written to its row, in order
UpdateItems(table, items, k) ==
    IF k > Len(items) THEN table
    ELSE UpdateItems(
             [table EXCEPT ![<<items[k].marcher_id, items[k].page_id>>] =
                               [x |-> items[k].x, y |-> items[k].y]],
             items, k + 1)

\* updateMarcherPages (lines 147-199)
UpdateMarcherPages(marcherPageUpdates, isChildAction) ==
    /\ dbOps < MaxDbOps
    /\ marcherPageTable' =
           UpdateItems(marcherPageTable,
                       NewUpdatedItems(shapePageMarchers, marcherPageUpdates,
                                       isChildAction, 1), 1)
    /\ updateLog' = [done |-> TRUE, updates |-> marcherPageUpdates,
                     isChildAction |-> isChildAction, before |-> marcherPageTable,
                     spms |-> shapePageMarchers]
    /\ dbOps' = dbOps + 1
    /\ UNCHANGED <<shapePageMarchers, rosterVars>>

\* a marcher is put on, or taken off, a shape of a page (ShapePageMarcher table)
SetShapePageMarcher(key, present) ==
    /\ dbOps < MaxDbOps
    /\ shapePageMarchers' = IF present THEN shapePageMarchers \cup {key}
                            ELSE shapePageMarchers \ {key}
    /\ shapePageMarchers' # shapePageMarchers
    /\ dbOps' = dbOps + 1
    /\ UNCHANGED <<marcherPageTable, updateLog, rosterVars>>

-----------------------------------------------------------------------------
(* Selection manager: setActiveObjects and its re-entrancy lock.  fabric   *)
(* fires its selection events inside discardActiveObject and               *)
(* setActiveObject; a listener may call setActiveObjects again from there. *)

MaxSelectOps == 3

Selectables == {1, 2, 3}
NoSelection == [kind |-> "none", objects |-> {}]

\* fabric's getActiveObjects()
GetActiveObjects(active) == active.objects

\* a selection change that adds the new objects to the selection it finds
SelectionAdded(current, newSelectedObjects) ==
    [kind |-> "activeSelection", objects |-> current.objects \cup newSelectedObjects]

\* a guard that lets every call through
NeverReturnsAtOnce(lock) == FALSE

\* the selection change of setActiveObjects (lines 2293-2311), once it is complete
SelectionChange(current, newSelectedObjects) ==
    IF Cardinality(newSelectedObjects) = 1
    THEN [kind |-> "object", objects |-> newSelectedObjects]
    ELSE IF Cardinality(newSelectedObjects) > 1
    THEN [kind |-> "activeSelection", objects |-> newSelectedObjects]
    ELSE NoSelection

\* the guard of setActiveObjects (line 2290)
ReturnsAtOnce(lock) == lock

\* a whole setActiveObjects call: the lock and the selection it leaves
SetActiveObjects(lock, current, newSelectedObjects) ==
    IF ReturnsAtOnce(lock) THEN [lock |-> lock, active |-> current]
    ELSE [lock |-> FALSE, active |-> SelectionChange(current, newSelectedObjects)]

\* setActiveObjects is called from outside any selection handler; it runs up to
\* the first selection event that fabric fires
SetActiveObjectsBegin(newSelectedObjects) ==
    /\ selectPc = "idle"
    /\ selectOps < MaxSelectOps
    /\ selectOps' = selectOps + 1
    /\ selectArg' = newSelectedObjects
    /\ IF ReturnsAtOnce(handleSelectLock)
       THEN UNCHANGED <<handleSelectLock, activeObject, selectPc, lockMovement>>
       ELSE /\ handleSelectLock' = TRUE
            /\ IF Cardinality(newSelectedObjects) > 1
               THEN /\ activeObject' = NoSelection
                    /\ UNCHANGED lockMovement
                    /\ selectPc' = "discarded"
               ELSE /\ activeObject' = SelectionChange(activeObject, newSelectedObjects)
                    /\ lockMovement' = IF newSelectedObjects = {} THEN lockMovement
                                       ELSE LockMovementOf(uiSettings)
                    /\ selectPc' = "selected"
    /\ UNCHANGED nestedLog

\* setActiveObject(object) is called from outside any selection handler
\* (lines 1147-1151)
SetActiveObject(object) ==
    /\ selectPc = "idle"
    /\ selectOps < MaxSelectOps
    /\ selectOps' = selectOps + 1
    /\ lockMovement' = LockMovementOf(uiSettings)
    /\ activeObject' = [kind |-> "object", objects |-> {object}]
    /\ UNCHANGED <<handleSelectLock, selectPc, selectArg, nestedLog>>

\* the outer call builds the ActiveSelection and makes it active (lines 2300-2308)
SetActiveObjectsSelect ==
    /\ selectPc = "discarded"
    /\ activeObject' = SelectionChange(activeObject, selectArg)
    /\ lockMovement' = LockMovementOf(uiSettings)
    /\ selectPc' = "selected"
    /\ UNCHANGED <<handleSelectLock, selectArg, selectOps, nestedLog>>

\* the outer call requests a repaint, releases the lock and returns
SetActiveObjectsReturn ==
    /\ selectPc = "selected"
    /\ handleSelectLock' = FALSE
    /\ selectPc' = "idle"
    /\ UNCHANGED <<activeObject, selectArg, selectOps, nestedLog, lockMovement>>

\* the outer call ends with an exception: a fabric call of lines 2293-2313, or a
\* selection handler that fabric runs in it, throws, and nothing catches it on the
\* way out of setActiveObjects
SetActiveObjectsThrows ==
    /\ selectPc \in {"discarded", "selected"}
    /\ selectPc' = "idle"
    /\ UNCHANGED <<handleSelectLock, activeObject, selectArg, selectOps, nestedLog,
                   lockMovement>>

\* a selection handler that fabric runs inside the outer call calls
\* setActiveObjects itself
SelectionCallback(newSelectedObjects) ==
    /\ selectPc \in {"discarded", "selected"}
    /\ nestedLog.count < MaxSelectOps
    /\ LET r == SetActiveObjects(handleSelectLock, activeObject, newSelectedObjects)
       IN  /\ handleSelectLock' = r.lock
           /\ activeObject' = r.active
           /\ lockMovement' = IF r.active \in {activeObject, NoSelection} THEN lockMovement
                              ELSE LockMovementOf(uiSettings)
           /\ nestedLog' = [count |-> nestedLog.count + 1,
                            lockBefore |-> handleSelectLock, lockAfter |-> r.lock,
                            activeBefore |-> activeObject, activeAfter |-> r.active]
    /\ UNCHANGED <<selectPc, selectArg, selectOps>>

-----------------------------------------------------------------------------
(* Initial states: the canvas after its constructor has run, an empty      *)
(* scene, a table with one MarcherPage per marcher and page, no selection. *)

\* the canvas that the constructor leaves (lines 135-226 and the field initializers,
\* lines 95-133): the first grid is built while uiSettings is not yet assigned
Constructor(settings, geometry) ==
    /\ transformValues = ResetZoom
    /\ viewportTransform = [scale |-> One, translateX |-> Whole(0), translateY |-> Whole(0)]
    /\ isPanning = FALSE
    /\ lastPosX = Whole(0)
    /\ lastPosY = Whole(0)
    /\ initialPinchDistance = 0
    /\ touches = <<>>
    /\ zoomTimeout = 0
    /\ pendingTimers = {}
    /\ fieldProperties = SortedField(geometry)
    /\ staticGridRef = RenderFieldGrid(Undefined, geometry, 0, NoImage)
    /\ backgroundImage = NoImage
    /\ bgImageValues = Undefined
    /\ imageLog = [op |-> "none"]
    /\ gridBuilds = 1
    /\ uiSettings = settings
    /\ trackpadModeEnabled = settings.mouseSettings.trackpadMode
    /\ panSensitivity = IfSet(settings.mouseSettings.panSensitivity, Half)
    /\ trackpadPanSensitivity = IfSet(settings.mouseSettings.trackpadPanSensitivity, Half)
    /\ zoomSensitivity = IfSet(settings.mouseSettings.zoomSensitivity, <<3, 100>>)
    /\ settingOps = 0
    /\ feedbackCount = 0
    /\ events = 0
    /\ lastEvent = "constructor"
    /\ zoomLog = NoZoom
    /\ inputLog = NoInput
    /\ transition = ""
    /\ transitionResets = <<>>

\* settings that show the whole grid and leave the pan sensitivities at their defaults
DefaultUiSettings(trackpadMode, zoom) ==
    UiSettingsOf(TRUE, TRUE, FALSE, trackpadMode, Whole(0), Whole(0), zoom)

InitView ==
    /\ \E zoom \in ZoomSensitivities : Constructor(DefaultUiSettings(TRUE, zoom), Field)
    /\ isMac \in BOOLEAN
    /\ window \in WindowSizes

\* one constructed canvas, for the specifications that leave the viewport alone
ViewAtRest ==
    /\ Constructor(DefaultUiSettings(FALSE, <<1, 10>>), Field)
    /\ isMac = FALSE
    /\ window = [innerWidth |-> 56, innerHeight |-> 48]

InitRender ==
    /\ canvasMarchers = <<>>
    /\ pendingRenders = <<>>
    /\ nextObjectId = 1
    /\ renders = 0
    /\ renderLog = [done |-> FALSE]
    /\ prevRenderArgs = <<>>

\* the show that the tables hold at the start: the marchers of MarcherIds, the pages
\* of PageIds, and one MarcherPage row for each marcher on each page
InitRoster ==
    /\ marcherTable = { [id |-> m, drill_prefix |-> "B", drill_order |-> m] :
                          m \in MarcherIds }
    /\ pageTable = <<1, 2>>
    /\ marcherPageRows =
           { [id |-> 2 * (k[1] - 1) + k[2], marcher_id |-> k[1], page_id |-> k[2],
              x |-> 100, y |-> 100] : k \in MarcherPageKeys }
    /\ createLog = [done |-> FALSE]

InitDb ==
    /\ marcherPageTable = [k \in MarcherPageKeys |-> [x |-> 100, y |-> 100]]
    /\ shapePageMarchers = {}
    /\ dbOps = 0
    /\ updateLog = [done |-> FALSE]
    /\ InitRoster

\* refreshCanvasSize, called by the constructor (lines 190-191, 1110-1116), gives the
\* canvas the size of the window
InitClick ==
    /\ selectDragStart = [x |-> 0, y |-> 0, time |-> 0]
    /\ clickLog = [done |-> FALSE]
    /\ canvasSize = [width |-> window.innerWidth, height |-> window.innerHeight]
    /\ exports = 0
    /\ exportLog = [done |-> FALSE]
    /\ marcherShapes = <<>>
    /\ shapeOps = 0
    /\ shapeLog = [done |-> FALSE]
    /\ lastIssued = <<>>

InitSel ==
    /\ handleSelectLock = FALSE
    /\ activeObject = NoSelection
    /\ selectPc = "idle"
    /\ selectArg = {}
    /\ selectOps = 0
    /\ nestedLog = [count |-> 0]
    /\ lockMovement = [x |-> FALSE, y |-> FALSE]

Init == InitView /\ InitClick /\ InitRender /\ InitDb /\ InitSel
InitScene == ViewAtRest /\ InitClick /\ InitRender /\ InitDb /\ InitSel

\* the wheel events that ask for a zoom
ZoomWheelEvents == { e \in WheelEvents : e.ctrlKey /\ e.clientX = 50 }

\* every source of a zoom request, with resetZoom and fitToScreen
NextZoom ==
    \/ \E e \in ZoomWheelEvents :
           /\ events < MaxZoomEvents
           /\ Wheel(e) /\ UNCHANGED <<gridVars, canvasVars, renderVars, dbVars, selVars>>
    \/ ZoomTimeoutFires /\ UNCHANGED <<gridVars, canvasVars, renderVars, dbVars, selVars>>
    \/ \E p \in TouchPoints :
           /\ events < MaxZoomEvents
           /\ Len(touches) < MaxTouches
           /\ TouchStart(p) /\ UNCHANGED <<gridVars, canvasVars, renderVars, dbVars, selVars>>
    \/ \E i \in 1..MaxTouches, p \in TouchPoints :
           /\ events < MaxZoomEvents
           /\ TouchMove(i, p) /\ UNCHANGED <<gridVars, canvasVars, renderVars, dbVars, selVars>>
    \/ \E i \in 1..MaxTouches :
           /\ events < MaxZoomEvents
           /\ TouchEnd(i) /\ UNCHANGED <<gridVars, canvasVars, renderVars, dbVars, selVars>>
    \/ events < MaxZoomEvents /\ ZoomOutButton
           /\ UNCHANGED <<gridVars, canvasVars, renderVars, dbVars, selVars>>
    \/ events < MaxZoomEvents /\ ZoomInButton
           /\ UNCHANGED <<gridVars, canvasVars, renderVars, dbVars, selVars>>
    \/ events < MaxZoomEvents /\ FitToScreenClick
           /\ UNCHANGED <<gridVars, canvasVars, renderVars, dbVars, selVars>>
    \/ events < MaxZoomEvents /\ ResetZoomCall
           /\ UNCHANGED <<gridVars, canvasVars, renderVars, dbVars, selVars>>

\* the wheel events of the gesture model: a zoom, a trackpad pan, a line-mode pan
SettleWheelEvents ==
    { e \in WheelEvents :
        \/ e.ctrlKey /\ e.deltaY < 0 /\ e.clientX = 50
        \/ ~e.ctrlKey /\ e.deltaX = 2 /\ e.deltaMode = 0
        \/ ~e.ctrlKey /\ e.deltaX = 0 /\ e.deltaMode = 1 }
SettleMouseDownEvents == { e \in MouseDownEvents : e.clientX = 10 }

InitSettle ==
    /\ \E trackpadMode \in BOOLEAN :
           Constructor(DefaultUiSettings(trackpadMode, <<1, 10>>), Field)
    /\ isMac \in BOOLEAN
    /\ window = [innerWidth |-> 56, innerHeight |-> 48]
    /\ InitClick /\ InitRender /\ InitDb /\ InitSel

\* the gestures on the container: wheel, mouse drag, touch, and the idle timer
NextSettle ==
    \/ \E e \in SettleWheelEvents :
           /\ events < MaxGestureEvents
           /\ Wheel(e) /\ UNCHANGED <<gridVars, canvasVars, renderVars, dbVars, selVars>>
    \/ ZoomTimeoutFires /\ UNCHANGED <<gridVars, canvasVars, renderVars, dbVars, selVars>>
    \/ \E e \in SettleMouseDownEvents :
           /\ events < MaxGestureEvents
           /\ MouseDown(e) /\ UNCHANGED <<gridVars, canvasVars, renderVars, dbVars, selVars>>
    \/ \E p \in ClientPoints :
           /\ events < MaxGestureEvents
           /\ MouseMove(p) /\ UNCHANGED <<gridVars, canvasVars, renderVars, dbVars, selVars>>
    \/ events < MaxGestureEvents /\ MouseUp
           /\ UNCHANGED <<gridVars, canvasVars, renderVars, dbVars, selVars>>
    \/ \E p \in TouchPoints :
           /\ events < MaxGestureEvents
           /\ Len(touches) < MaxTouches
           /\ TouchStart(p) /\ UNCHANGED <<gridVars, canvasVars, renderVars, dbVars, selVars>>
    \/ \E i \in 1..MaxTouches, p \in TouchPoints :
           /\ events < MaxGestureEvents
           /\ TouchMove(i, p) /\ UNCHANGED <<gridVars, canvasVars, renderVars, dbVars, selVars>>
    \/ \E i \in 1..MaxTouches :
           /\ events < MaxGestureEvents
           /\ TouchEnd(i) /\ UNCHANGED <<gridVars, canvasVars, renderVars, dbVars, selVars>>
    \/ events < MaxGestureEvents /\ ZoomInButton
           /\ UNCHANGED <<gridVars, canvasVars, renderVars, dbVars, selVars>>

NextRender ==
    \/ \E args \in RenderArgs :
           RenderMarchersCall(args)
           /\ UNCHANGED <<viewVars, gridVars, canvasVars, dbVars, selVars>>
    \/ \E i \in 1..MaxPending :
           RenderMarchersResume(i)
           /\ UNCHANGED <<viewVars, gridVars, canvasVars, dbVars, selVars>>

NextDb ==
    \/ \E updates \in SeqsUpTo(MarcherPageUpdates, MaxBatch), isChildAction \in BOOLEAN :
           UpdateMarcherPages(updates, isChildAction)
           /\ UNCHANGED <<viewVars, gridVars, canvasVars, renderVars, selVars>>
    \/ \E key \in MarcherPageKeys, present \in BOOLEAN :
           SetShapePageMarcher(key, present)
           /\ UNCHANGED <<viewVars, gridVars, canvasVars, renderVars, selVars>>

NextSel ==
    \/ \E objs \in SUBSET Selectables :
           SetActiveObjectsBegin(objs)
           /\ UNCHANGED <<viewVars, gridVars, canvasVars, renderVars, dbVars>>
    \/ SetActiveObjectsSelect
           /\ UNCHANGED <<viewVars, gridVars, canvasVars, renderVars, dbVars>>
    \/ SetActiveObjectsReturn
           /\ UNCHANGED <<viewVars, gridVars, canvasVars, renderVars, dbVars>>
    \/ \E objs \in SUBSET Selectables :
           SelectionCallback(objs)
           /\ UNCHANGED <<viewVars, gridVars, canvasVars, renderVars, dbVars>>

SpecZoom == Init /\ [][NextZoom]_vars
SpecSettle == InitSettle /\ [][NextSettle]_vars
SpecRender == InitScene /\ [][NextRender]_vars
SpecDb == InitScene /\ [][NextDb]_vars
SpecSel == InitScene /\ [][NextSel]_vars

\* the settings of the grid model: each grid flag off, and a change of the other
\* settings (lock axis, trackpad mode, pan sensitivity)
GridUiSettings ==
    { UiSettingsOf(TRUE, TRUE, FALSE, FALSE, Whole(0), Whole(0), <<1, 10>>),
      UiSettingsOf(FALSE, TRUE, FALSE, FALSE, Whole(0), Whole(0), <<1, 10>>),
      UiSettingsOf(TRUE, FALSE, FALSE, FALSE, Whole(0), Whole(0), <<1, 10>>),
      UiSettingsOf(TRUE, TRUE, TRUE, TRUE, One, Whole(0), <<1, 10>>) }

MaxGridEvents == 2

\* the wheel events of the grid model: a zoom and a pan
GridWheelEvents ==
    { e \in WheelEvents :
        \/ e.ctrlKey /\ e.deltaY < 0 /\ e.clientX = 50
        \/ ~e.ctrlKey /\ e.deltaX = 2 /\ e.deltaMode = 0 }

InitGrid ==
    /\ \E settings \in GridUiSettings : Constructor(settings, Field)
    /\ isMac = TRUE
    /\ window = [innerWidth |-> 56, innerHeight |-> 48]
    /\ InitClick /\ InitRender /\ InitDb /\ InitSel

\* the settings operations that may rebuild the grid, among wheel gestures
NextGrid ==
    \/ \E settings \in GridUiSettings :
           /\ settingOps < MaxSettingOps
           /\ SetUiSettings(settings) /\ UNCHANGED <<canvasVars, renderVars, dbVars>>
    \/ \E geometry \in FieldGeometries :
           /\ settingOps < MaxSettingOps
           /\ SetFieldProperties(geometry)
           /\ UNCHANGED <<canvasVars, renderVars, dbVars, selVars>>
    \/ \E response \in ImageResponses :
           /\ settingOps < MaxSettingOps
           /\ RefreshBackgroundImage(response)
           /\ UNCHANGED <<canvasVars, renderVars, dbVars, selVars>>
    \/ \E e \in GridWheelEvents :
           /\ events < MaxGridEvents
           /\ Wheel(e) /\ UNCHANGED <<gridVars, canvasVars, renderVars, dbVars, selVars>>
    \/ ZoomTimeoutFires /\ UNCHANGED <<gridVars, canvasVars, renderVars, dbVars, selVars>>

SpecGrid == InitGrid /\ [][NextGrid]_vars

MaxFrameEvents == 2

FrameMouseDownEvents == { e \in MouseDownEvents : e.button = 1 /\ e.clientX = 10 }
FrameSelections == { {1}, {2, 3} }

InitFrame ==
    /\ \E gridLines \in BOOLEAN :
           Constructor(UiSettingsOf(gridLines, TRUE, FALSE, TRUE, Whole(0), Whole(0),
                                    <<1, 10>>), Field)
    /\ isMac = TRUE
    /\ window = [innerWidth |-> 56, innerHeight |-> 48]
    /\ InitClick /\ InitRender /\ InitDb /\ InitSel

\* pans, zooms, resetZoom, fitToScreen and selection changes
NextFrame ==
    \/ \E e \in GridWheelEvents :
           /\ events < MaxFrameEvents
           /\ Wheel(e) /\ UNCHANGED <<gridVars, canvasVars, renderVars, dbVars, selVars>>
    \/ ZoomTimeoutFires /\ UNCHANGED <<gridVars, canvasVars, renderVars, dbVars, selVars>>
    \/ \E e \in FrameMouseDownEvents :
           /\ events < MaxFrameEvents
           /\ MouseDown(e) /\ UNCHANGED <<gridVars, canvasVars, renderVars, dbVars, selVars>>
    \/ \E p \in ClientPoints :
           /\ events < MaxFrameEvents
           /\ MouseMove(p) /\ UNCHANGED <<gridVars, canvasVars, renderVars, dbVars, selVars>>
    \/ events < MaxFrameEvents /\ MouseUp
           /\ UNCHANGED <<gridVars, canvasVars, renderVars, dbVars, selVars>>
    \/ events < MaxFrameEvents /\ ZoomInButton
           /\ UNCHANGED <<gridVars, canvasVars, renderVars, dbVars, selVars>>
    \/ events < MaxFrameEvents /\ ZoomOutButton
           /\ UNCHANGED <<gridVars, canvasVars, renderVars, dbVars, selVars>>
    \/ events < MaxFrameEvents /\ FitToScreenClick
           /\ UNCHANGED <<gridVars, canvasVars, renderVars, dbVars, selVars>>
    \/ events < MaxFrameEvents /\ ResetZoomCall
           /\ UNCHANGED <<gridVars, canvasVars, renderVars, dbVars, selVars>>
    \/ \E objs \in FrameSelections :
           /\ selectOps < MaxFrameEvents
           /\ SetActiveObjectsBegin(objs)
           /\ UNCHANGED <<viewVars, gridVars, canvasVars, renderVars, dbVars>>
    \/ SetActiveObjectsSelect
           /\ UNCHANGED <<viewVars, gridVars, canvasVars, renderVars, dbVars>>
    \/ SetActiveObjectsReturn
           /\ UNCHANGED <<viewVars, gridVars, canvasVars, renderVars, dbVars>>

SpecFrame == InitFrame /\ [][NextFrame]_vars

MaxWheelEvents == 3

\* the wheel events of the wheel model: zooms with ctrl and with meta, pans in pixel
\* mode (a trackpad gesture on macOS in trackpad mode) and in line mode (never one)
AllWheelEvents ==
    { e \in WheelEvents : e.ctrlKey => e.clientX = 50 }
    \cup
    { [deltaX |-> 0, deltaY |-> -100, deltaMode |-> 1, ctrlKey |-> FALSE,
       metaKey |-> TRUE, clientX |-> 50, clientY |-> 25] }

\* mouse pan sensitivity 1, trackpad pan sensitivity at its default 0.5
InitWheel ==
    /\ \E trackpadMode \in BOOLEAN :
           Constructor(UiSettingsOf(TRUE, TRUE, FALSE, trackpadMode, One, Whole(0),
                                    <<1, 10>>), Field)
    /\ isMac \in BOOLEAN
    /\ window = [innerWidth |-> 56, innerHeight |-> 48]
    /\ InitClick /\ InitRender /\ InitDb /\ InitSel

\* wheel events and the idle timer
NextWheel ==
    \/ \E e \in AllWheelEvents :
           /\ events < MaxWheelEvents
           /\ Wheel(e) /\ UNCHANGED <<gridVars, canvasVars, renderVars, dbVars, selVars>>
    \/ ZoomTimeoutFires /\ UNCHANGED <<gridVars, canvasVars, renderVars, dbVars, selVars>>

SpecWheel == InitWheel /\ [][NextWheel]_vars

MaxPointerEvents == 4

\* mouse-down events with each of the three buttons, with and without Alt
PointerMouseDownEvents ==
    { [button |-> button, altKey |-> altKey, clientX |-> 10, clientY |-> 5] :
        button \in {0, 1, 2}, altKey \in BOOLEAN }

InitPointer ==
    /\ \E trackpadMode \in BOOLEAN :
           Constructor(DefaultUiSettings(trackpadMode, <<1, 10>>), Field)
    /\ isMac = TRUE
    /\ window = [innerWidth |-> 56, innerHeight |-> 48]
    /\ InitClick /\ InitRender /\ InitDb /\ InitSel

\* the mouse and touch gestures on the container
NextPointer ==
    \/ \E e \in PointerMouseDownEvents :
           /\ events < MaxPointerEvents
           /\ MouseDown(e) /\ UNCHANGED <<gridVars, canvasVars, renderVars, dbVars, selVars>>
    \/ \E p \in ClientPoints :
           /\ events < MaxPointerEvents
           /\ MouseMove(p) /\ UNCHANGED <<gridVars, canvasVars, renderVars, dbVars, selVars>>
    \/ events < MaxPointerEvents /\ MouseUp
           /\ UNCHANGED <<gridVars, canvasVars, renderVars, dbVars, selVars>>
    \/ \E p \in TouchPoints :
           /\ events < MaxPointerEvents
           /\ Len(touches) < MaxTouches
           /\ TouchStart(p) /\ UNCHANGED <<gridVars, canvasVars, renderVars, dbVars, selVars>>
    \/ \E i \in 1..MaxTouches, p \in TouchPoints :
           /\ events < MaxPointerEvents
           /\ TouchMove(i, p) /\ UNCHANGED <<gridVars, canvasVars, renderVars, dbVars, selVars>>
    \/ \E i \in 1..MaxTouches :
           /\ events < MaxPointerEvents
           /\ TouchEnd(i) /\ UNCHANGED <<gridVars, canvasVars, renderVars, dbVars, selVars>>

SpecPointer == InitPointer /\ [][NextPointer]_vars

\* the settings objects of the settings model: every choice of the three sensitivities
SensitivityUiSettings ==
    { UiSettingsOf(TRUE, TRUE, FALSE, FALSE, pan, trackpadPan, zoom) :
        pan \in SensitivitySettings, trackpadPan \in { Whole(0), Whole(5) },
        zoom \in { Whole(0), One } }

InitSettings ==
    /\ \E settings \in SensitivityUiSettings : Constructor(settings, Field)
    /\ isMac = FALSE
    /\ window = [innerWidth |-> 56, innerHeight |-> 48]
    /\ InitClick /\ InitRender /\ InitDb /\ InitSel

\* setUiSettings, the sensitivity setters and setTrackpadMode
NextSettings ==
    \/ \E settings \in SensitivityUiSettings :
           /\ settingOps < MaxSettingOps
           /\ SetUiSettings(settings) /\ UNCHANGED <<canvasVars, renderVars, dbVars>>
    \/ \E value \in SensitivitySettings :
           /\ settingOps < MaxSettingOps
           /\ SetPanSensitivity(value) /\ UNCHANGED <<canvasVars, renderVars, dbVars, selVars>>
    \/ \E value \in SensitivitySettings :
           /\ settingOps < MaxSettingOps
           /\ SetTrackpadPanSensitivity(value)
           /\ UNCHANGED <<canvasVars, renderVars, dbVars, selVars>>
    \/ \E value \in SensitivitySettings :
           /\ settingOps < MaxSettingOps
           /\ SetZoomSensitivity(value) /\ UNCHANGED <<canvasVars, renderVars, dbVars, selVars>>
    \/ \E enabled \in BOOLEAN :
           /\ settingOps < MaxSettingOps
           /\ SetTrackpadMode(enabled) /\ UNCHANGED <<canvasVars, renderVars, dbVars, selVars>>

SpecSettings == InitSettings /\ [][NextSettings]_vars

\* pointer-down/pointer-up pairs
NextClick ==
    \/ \E p \in PointerDownPoints, time \in PointerDownTimes :
           PointerDown(p, time)
           /\ UNCHANGED <<viewVars, gridVars, exportVars, shapeVars, issueVars, renderVars,
                        dbVars, selVars>>
    \/ \E offset \in PointerUpOffsets, delay \in PointerUpDelays :
           PointerUp(<<selectDragStart.x + offset[1], selectDragStart.y + offset[2]>>,
                     selectDragStart.time + delay)
           /\ UNCHANGED <<viewVars, gridVars, exportVars, shapeVars, issueVars, renderVars,
                        dbVars, selVars>>

SpecClick == InitScene /\ [][NextClick]_vars

\* Bursts of wheel events: wheel zooms and pans, the idle timer, and a change of the
\* field geometry, which rebuilds the grid.  The idle timer is a setTimeout of 100 ms:
\* the event loop runs its callback once the delay has passed, unless a later wheel
\* event has cleared it.
MaxBurstEvents == 3

InitBurst ==
    /\ Constructor(DefaultUiSettings(TRUE, <<1, 10>>), Field)
    /\ isMac \in BOOLEAN
    /\ window = [innerWidth |-> 56, innerHeight |-> 48]
    /\ InitClick /\ InitRender /\ InitDb /\ InitSel

IdleTimerStep ==
    ZoomTimeoutFires /\ UNCHANGED <<gridVars, canvasVars, renderVars, dbVars, selVars>>

NextBurst ==
    \/ \E e \in GridWheelEvents :
           /\ events < MaxBurstEvents
           /\ Wheel(e) /\ UNCHANGED <<gridVars, canvasVars, renderVars, dbVars, selVars>>
    \/ IdleTimerStep
    \/ \E geometry \in FieldGeometries :
           /\ settingOps < MaxSettingOps
           /\ SetFieldProperties(geometry)
           /\ UNCHANGED <<canvasVars, renderVars, dbVars, selVars>>

SpecBurst == InitBurst /\ [][NextBurst]_vars /\ WF_vars(IdleTimerStep)

NextShapes ==
    \E shapePages \in ShapePageSeqs :
        /\ shapeOps < MaxShapeOps
        /\ RenderMarcherShapes(shapePages)
        /\ UNCHANGED <<viewVars, gridVars, clickVars, exportVars, issueVars, dbVars, selVars>>

SpecShapes == InitScene /\ [][NextShapes]_vars

\* SVG export among changes of the view: a fit to the screen, a zoom button, a reset.
MaxExportEvents == 2

InitExport ==
    /\ Constructor(DefaultUiSettings(FALSE, <<1, 10>>), Field)
    /\ isMac = FALSE
    /\ window \in WindowSizes
    /\ InitClick /\ InitRender /\ InitDb /\ InitSel

NextExport ==
    \/ \E outcome \in { "svg", "throws" } :
           /\ exports < MaxExports
           /\ ToSVG(outcome)
           /\ UNCHANGED <<gridVars, clickVars, shapeVars, issueVars, renderVars, dbVars, selVars>>
    \/ events < MaxExportEvents /\ FitToScreenClick
           /\ UNCHANGED <<gridVars, canvasVars, renderVars, dbVars, selVars>>
    \/ events < MaxExportEvents /\ ZoomInButton
           /\ UNCHANGED <<gridVars, canvasVars, renderVars, dbVars, selVars>>
    \/ \E e \in GridWheelEvents :
           /\ events < MaxExportEvents
           /\ Wheel(e) /\ UNCHANGED <<gridVars, canvasVars, renderVars, dbVars, selVars>>
    \/ ZoomTimeoutFires /\ UNCHANGED <<gridVars, canvasVars, renderVars, dbVars, selVars>>

SpecExport == InitExport /\ [][NextExport]_vars

\* Transitions of the container: wheel zooms and pans, fits to the screen and the
\* timers that reset the transition style.
MaxTransitionEvents == 3

TransitionWheelEvents ==
    { [deltaX |-> 0, deltaY |-> -100, deltaMode |-> 0, ctrlKey |-> TRUE, metaKey |-> FALSE,
       clientX |-> 50, clientY |-> 25],
      [deltaX |-> 2, deltaY |-> -4, deltaMode |-> 0, ctrlKey |-> FALSE, metaKey |-> FALSE,
       clientX |-> 10, clientY |-> 5] }

InitTransition ==
    /\ Constructor(DefaultUiSettings(TRUE, <<1, 10>>), Field)
    /\ isMac \in BOOLEAN
    /\ window = [innerWidth |-> 56, innerHeight |-> 48]
    /\ InitClick /\ InitRender /\ InitDb /\ InitSel

NextTransition ==
    \/ \E e \in TransitionWheelEvents :
           /\ events < MaxTransitionEvents
           /\ Wheel(e) /\ UNCHANGED <<gridVars, canvasVars, renderVars, dbVars, selVars>>
    \/ events < MaxTransitionEvents /\ FitToScreenClick
           /\ UNCHANGED <<gridVars, canvasVars, renderVars, dbVars, selVars>>
    \/ \E i \in 1..MaxTransitionEvents :
           /\ TransitionResetFires(i)
           /\ UNCHANGED <<gridVars, canvasVars, renderVars, dbVars, selVars>>

SpecTransition == InitTransition /\ [][NextTransition]_vars

-----------------------------------------------------------------------------
(* Properties of the viewport controller.                                  *)

\* C1: after any sequence of zoom requests (wheel, pinch, zoom buttons), resetZoom
\* and fitToScreen calls, starting from scale 1, transformValues.scale is within
\* [MIN_ZOOM, MAX_ZOOM]
ScaleWithinZoomLimits ==
    /\ RLe(MIN_ZOOM, transformValues.scale)
    /\ RLe(transformValues.scale, MAX_ZOOM)

\* a zoom request took the scale from inside the limits down to MIN_ZOOM
ZoomClampedToMinimum ==
    /\ zoomLog.called
    /\ RLt(MIN_ZOOM, zoomLog.pre.scale)
    /\ zoomLog.post.scale = MIN_ZOOM

\* the scale that a zoom request asks for: prevScale * dampedFactor
RequestedScale(log) == RMul(log.pre.scale, DampedFactor(log.factor))
ExceedsZoomLimits(scale) == RLt(scale, MIN_ZOOM) \/ RLt(MAX_ZOOM, scale)

\* C2 as stated: every zoom request whose result would exceed MIN_ZOOM or MAX_ZOOM
\* leaves scale and translation unchanged and gives exactly one limit notification;
\* a zoom request whose result stays within the limits gives none
ZoomBeyondLimitIsNoOp ==
    zoomLog.called =>
        IF ExceedsZoomLimits(RequestedScale(zoomLog))
        THEN zoomLog.post = zoomLog.pre /\ zoomLog.feedback = 1
        ELSE zoomLog.feedback = 0

\* the scale is at a limit and the request asks to go further
ZoomsOutwardAtLimit(log) ==
    \/ log.pre.scale = MIN_ZOOM /\ RLt(log.factor, One)
    \/ log.pre.scale = MAX_ZOOM /\ RLt(One, log.factor)

\* C2: a zoom request made when the scale already is at MIN_ZOOM (zooming out) or at
\* MAX_ZOOM (zooming in) leaves scale and translation unchanged and gives exactly one
\* limit notification; every other zoom request gives no notification, and when its
\* result would pass a limit from inside, the scale is set to that limit (unless
\* the change of scale is below 0.0001)
ZoomAtLimitIsNoOp ==
    zoomLog.called =>
        IF ZoomsOutwardAtLimit(zoomLog)
        THEN zoomLog.post = zoomLog.pre /\ zoomLog.feedback = 1
        ELSE /\ zoomLog.feedback = 0
             /\ RLt(RequestedScale(zoomLog), MIN_ZOOM) =>
                    \/ zoomLog.post.scale = MIN_ZOOM
                    \/ /\ zoomLog.post = zoomLog.pre
                       /\ RLtOneOver(RSub(zoomLog.pre.scale, MIN_ZOOM), 10000)
             /\ RLt(MAX_ZOOM, RequestedScale(zoomLog)) =>
                    \/ zoomLog.post.scale = MAX_ZOOM
                    \/ /\ zoomLog.post = zoomLog.pre
                       /\ RLtOneOver(RSub(MAX_ZOOM, zoomLog.pre.scale), 10000)

\* a zoom request at a limit was refused with a notification, after one from
\* inside the limits had been clamped
ZoomRefusedAtLimit ==
    /\ zoomLog.called
    /\ ZoomsOutwardAtLimit(zoomLog)
    /\ zoomLog.feedback = 1
    /\ feedbackCount = 1

\* the content-space coordinate under the container point p: (p - translate) / scale
ContentCoordinate(p, translate, scale) == RDiv(RSub(p, translate), scale)

\* C3: for every zoom request anchored at container point P that changes the scale,
\* also when the new scale was clamped to a limit, the content-space coordinate
\* under P is the same before and after the zoom, on both axes
ZoomKeepsAnchor ==
    zoomLog.called /\ zoomLog.post.scale # zoomLog.pre.scale =>
        /\ ContentCoordinate(zoomLog.x, zoomLog.post.translateX, zoomLog.post.scale)
             = ContentCoordinate(zoomLog.x, zoomLog.pre.translateX, zoomLog.pre.scale)
        /\ ContentCoordinate(zoomLog.y, zoomLog.post.translateY, zoomLog.post.scale)
             = ContentCoordinate(zoomLog.y, zoomLog.pre.translateY, zoomLog.pre.scale)

\* a zoom about an anchor away from the origin, on a translated view, was clamped
\* to MAX_ZOOM
AnchoredZoomClampedToMaximum ==
    /\ zoomLog.called
    /\ zoomLog.pre.scale # MAX_ZOOM
    /\ zoomLog.post.scale = MAX_ZOOM
    /\ zoomLog.x # Whole(0) /\ zoomLog.y # Whole(0)
    /\ zoomLog.pre.translateX # Whole(0) /\ zoomLog.pre.translateY # Whole(0)

SettleEvents == { "mouseUpEndsPan", "touchEnd", "zoomTimeout" }

\* C4: right after every settle event (the mouse-up that ends a pan, every
\* touch-end, the firing of the idle timer after a wheel burst) fabric's viewport
\* scale and translation equal transformValues.scale, translateX and translateY
SettleCommitsViewport ==
    lastEvent \in SettleEvents =>
        /\ viewportTransform.scale = transformValues.scale
        /\ viewportTransform.translateX = transformValues.translateX
        /\ viewportTransform.translateY = transformValues.translateY

\* the idle timer fired after a wheel zoom that had left fabric's viewport behind
IdleTimerAfterWheelZoom ==
    /\ lastEvent = "zoomTimeout"
    /\ transformValues.scale # One
    /\ transformValues.translateX # Whole(0)
    /\ viewportTransform.scale = transformValues.scale

-----------------------------------------------------------------------------
(* Properties of the scene synchronizer.                                   *)

MarcherIdsOf(objs) == { objs[i].marcherId : i \in DOMAIN objs }
RowMarcherIds(args) == { r.marcher_id : r \in Range(args.currentMarcherPages) }

\* C5 as stated: after renderMarchers completes with rows whose marchers are all
\* in the roster, the marcher ids of the CanvasMarchers on the canvas are exactly
\* the marcher ids of the rows
RenderLeavesExactlyTheRows ==
    renderLog.done /\ RowMarcherIds(renderLog.args) \subseteq renderLog.args.allMarchers =>
        MarcherIdsOf(renderLog.after) = RowMarcherIds(renderLog.args)

\* C6 as stated: a second renderMarchers call with the same rows and roster creates
\* no drawable, removes none and leaves every drawable's coordinates as they were
RenderTwiceChangesNothing ==
    renderLog.done /\ prevRenderArgs = <<renderLog.args>> =>
        renderLog.after = renderLog.before

\* C7: after any sequence of renderMarchers calls on rows with distinct marcher
\* ids, also calls that overlap while they await the section appearances, no two
\* CanvasMarchers on the canvas have the same marcher id
NoTwoDrawablesOfOneMarcher ==
    \A i, j \in DOMAIN canvasMarchers :
        canvasMarchers[i].marcherId = canvasMarchers[j].marcherId => i = j

\* a call that was issued while another was pending completed after it, and both
\* had rows for both marchers
OverlappingRendersCompleted ==
    /\ renderLog.done
    /\ prevRenderArgs # <<>>
    /\ renders = 2
    /\ pendingRenders = <<>>
    /\ Len(prevRenderArgs[1].currentMarcherPages) = 2
    /\ Len(renderLog.args.currentMarcherPages) = 2
    /\ Len(canvasMarchers) = 2
    /\ Len(renderLog.before) = 2

-----------------------------------------------------------------------------
(* Properties of the MarcherPage table.                                    *)

KeyOf(update) == <<update.marcher_id, update.page_id>>

\* the last update of the batch that targets the row
LastUpdateOf(updates, key) ==
    updates[CHOOSE k \in DOMAIN updates :
                /\ KeyOf(updates[k]) = key
                /\ \A j \in DOMAIN updates : KeyOf(updates[j]) = key => j <= k]

\* C8: in a direct (non-child) updateMarcherPages call, every update that targets a
\* MarcherPage with a ShapePageMarcher record leaves that row's position unchanged
\* and every update that targets a row with no such record is applied, also when
\* locked and unlocked rows are mixed in one batch
LockedRowsRejectUpdates ==
    updateLog.done /\ ~updateLog.isChildAction =>
        \A key \in { KeyOf(updateLog.updates[k]) : k \in DOMAIN updateLog.updates } :
            IF key \in updateLog.spms
            THEN marcherPageTable[key] = updateLog.before[key]
            ELSE LET u == LastUpdateOf(updateLog.updates, key)
                 IN  marcherPageTable[key] = [x |-> u.x, y |-> u.y]

\* a direct call updated a locked and an unlocked row in one batch
MixedBatchUpdated ==
    /\ updateLog.done
    /\ ~updateLog.isChildAction
    /\ \E j, k \in DOMAIN updateLog.updates :
           /\ KeyOf(updateLog.updates[j]) \in updateLog.spms
           /\ KeyOf(updateLog.updates[k]) \notin updateLog.spms
           /\ marcherPageTable[KeyOf(updateLog.updates[k])]
                  # updateLog.before[KeyOf(updateLog.updates[k])]

-----------------------------------------------------------------------------
(* Properties of the selection manager.                                    *)

\* C9: a setActiveObjects call made while another one is in progress changes
\* neither the selection nor the lock, and the selection after the outer call has
\* returned is the one the outer call asked for
NestedSetActiveObjectsIsNoOp ==
    /\ nestedLog.count > 0 =>
           /\ nestedLog.lockAfter = nestedLog.lockBefore
           /\ nestedLog.activeAfter = nestedLog.activeBefore
    /\ selectPc = "idle" /\ selectOps > 0 =>
           GetActiveObjects(activeObject) = selectArg

\* a selection handler called setActiveObjects with another selection inside an
\* outer call for a group, and the outer call has returned
NestedCallDuringGroupSelection ==
    /\ nestedLog.count > 0
    /\ selectPc = "idle"
    /\ Cardinality(selectArg) > 1
    /\ nestedLog.activeBefore = NoSelection

\* C10: a setActiveObjects(S) call that is not re-entrant leaves the active objects
\* equal to S: one object is selected directly, several become one group selection
\* of exactly the objects of S that replaces the previous selection, none clears
\* the selection
SetActiveObjectsSelectsArgument ==
    /\ selectPc = "discarded" => activeObject = NoSelection
    /\ selectPc \in {"idle", "selected"} /\ selectOps > 0 =>
           /\ GetActiveObjects(activeObject) = selectArg
           /\ Cardinality(selectArg) = 1 => activeObject.kind = "object"
           /\ Cardinality(selectArg) > 1 => activeObject.kind = "activeSelection"
           /\ Cardinality(selectArg) = 0 => activeObject.kind = "none"

\* the second call has made a group of two objects the selection
GroupSelectionReplaced ==
    /\ selectPc = "selected"
    /\ selectOps = 2
    /\ selectArg = {2, 3}
    /\ activeObject = [kind |-> "activeSelection", objects |-> {2, 3}]

-----------------------------------------------------------------------------
(* Properties of the field grid and of the settings.                       *)

\* the geometry or the grid flags now in force differ from those of the grid object
DiffersFromPreviousBuild(grid, settings, geometry) ==
    \/ geometry # grid.fieldProperties
    \/ settings.gridLines # grid.gridLines
    \/ settings.halfLines # grid.halfLines

\* C11 as stated: a settings operation (setUiSettings, a fieldProperties assignment, a
\* background refresh) rebuilds the field grid exactly once if the field geometry or
\* the gridLines/halfLines flags differ from those of the previous build, and not at
\* all otherwise
GridRebuiltIffChanged ==
    [][settingOps' # settingOps =>
         gridBuilds' - gridBuilds =
             IF DiffersFromPreviousBuild(staticGridRef, uiSettings', fieldProperties')
             THEN 1 ELSE 0]_vars

\* C12: across any sequence of pans, zooms, resetZoom, fitToScreen and selection
\* changes staticGridRef is the grid object that the constructor built, with the
\* contents it was built with; only its objectCaching flag may differ
GridObjectKept ==
    [staticGridRef EXCEPT !.objectCaching = FALSE]
        = RenderFieldGrid(Undefined, fieldProperties, 0, NoImage)

\* a zoom has settled, so that the cache is on again, and there is a selection
CacheOnAfterZoomAndSelection ==
    /\ lastEvent = "zoomTimeout"
    /\ staticGridRef.objectCaching
    /\ transformValues.scale # One
    /\ activeObject # NoSelection

-----------------------------------------------------------------------------
(* Properties of the gesture handlers.                                     *)

\* C13: every wheel event is handled by exactly one of the two wheel handlers and
\* gives exactly one intent: zoom if ctrl or meta is held, pan otherwise, whether or
\* not it is a trackpad gesture and whether or not trackpad mode is enabled
WheelHasOneIntent ==
    inputLog.kind = "wheel" =>
        /\ Len(inputLog.handled) = 1
        /\ inputLog.handled[1].intent =
               IF inputLog.event.ctrlKey \/ inputLog.event.metaKey THEN "zoom" ELSE "pan"

\* a trackpad gesture without modifier was taken by the capture-phase handler as a pan
TrackpadGesturePanned ==
    /\ inputLog.kind = "wheel"
    /\ inputLog.trackpadGesture
    /\ inputLog.handled = << [handler |-> "handleMacOSTrackpad", intent |-> "pan",
                              sensitivity |-> trackpadPanSensitivity] >>

\* the last event was a wheel event without ctrl or meta
PlainWheel ==
    /\ inputLog.kind = "wheel"
    /\ ~(inputLog.event.ctrlKey \/ inputLog.event.metaKey)

\* C14 as stated: a plain wheel event is panned with the trackpad pan sensitivity if
\* it is a trackpad-mode match (a trackpad signal, with trackpad mode enabled) and with
\* the mouse pan sensitivity if it is not
PlainWheelSensitivityByGesture ==
    PlainWheel =>
        \A i \in 1..Len(inputLog.handled) :
            inputLog.handled[i].sensitivity =
                IF inputLog.trackpadGesture THEN trackpadPanSensitivity
                ELSE panSensitivity

\* C14: a plain wheel event is panned with the trackpad pan sensitivity if the platform
\* is macOS and trackpad mode is enabled, whether or not the event is a trackpad
\* signal, and with the mouse pan sensitivity otherwise
PlainWheelSensitivityByMode ==
    PlainWheel =>
        \A i \in 1..Len(inputLog.handled) :
            inputLog.handled[i].sensitivity =
                IF isMac /\ trackpadModeEnabled THEN trackpadPanSensitivity
                ELSE panSensitivity

\* on macOS in trackpad mode a line-mode wheel event, which is no trackpad signal, was
\* panned by handleContainerWheel with the trackpad pan sensitivity
LineModeWheelPannedAsTrackpad ==
    /\ PlainWheel
    /\ isMac /\ trackpadModeEnabled
    /\ inputLog.event.deltaMode = 1
    /\ ~inputLog.trackpadGesture
    /\ inputLog.handled = << [handler |-> "handleContainerWheel", intent |-> "pan",
                              sensitivity |-> trackpadPanSensitivity] >>
    /\ trackpadPanSensitivity # panSensitivity

\* C15: on a move with two touch points zoomContainer is called if and only if the
\* distance between the touches differs from the reference pinch distance by more
\* than 10, the reference distance becomes the current distance if it was called and
\* stays as it was if not, and in both cases the delta of the midpoint since the last
\* touch event is applied as a pan (by panContainer, after the zoom)
PinchZoomsPastThreshold ==
    [][(lastEvent' = "touchMove" /\ events' # events /\ Len(touches') = 2) =>
         LET currentDistance == TouchDistance(touches')
             zoomed == zoomLog'.called
             afterZoom == IF zoomed THEN zoomLog'.post ELSE transformValues
         IN  /\ zoomed <=> Abs(currentDistance - initialPinchDistance) > 10
             /\ initialPinchDistance' =
                    IF zoomed THEN currentDistance ELSE initialPinchDistance
             /\ transformValues' =
                    PanContainer(afterZoom, RSub(TouchCenterX(touches'), lastPosX),
                                 RSub(TouchCenterY(touches'), lastPosY))]_vars

\* a two-touch move changed the scale and replaced the reference distance
PinchZoomed ==
    /\ lastEvent = "touchMove"
    /\ Len(touches) = 2
    /\ zoomLog.called
    /\ zoomLog.post.scale # zoomLog.pre.scale
    /\ initialPinchDistance = TouchDistance(touches)

\* the step is a mouse move
MouseMoveStep == lastEvent' = "mouseMove" /\ events' # events
\* the step is a move of the only touch point that is down
SingleTouchMoveStep ==
    lastEvent' = "touchMove" /\ events' # events /\ Len(touches) = 1
\* the step is a mouse-down with the primary button and no modifier
PrimaryMouseDownStep ==
    /\ lastEvent' = "mouseDown" /\ events' # events
    /\ inputLog'.event.button = 0 /\ ~inputLog'.event.altKey

\* C16 as stated: a drag with a single touch point (the touch start and every move
\* of the touch) and a drag with the primary mouse button and no modifier (begun
\* while no pan is active) leave the viewport transform unchanged
SelectionDragKeepsTransform ==
    [][/\ SingleTouchMoveStep => transformValues' = transformValues
       /\ PrimaryMouseDownStep => isPanning' = isPanning
       /\ (MouseMoveStep /\ ~isPanning) => transformValues' = transformValues]_vars

\* C16: a drag with the primary mouse button and no modifier, begun while no pan is
\* active, leaves the viewport transform unchanged (the mouse-down leaves isPanning as
\* it is and a mouse move pans only while isPanning holds); a drag with a single
\* touch point is a pan: the touch start sets isPanning, and every move of the touch
\* while isPanning holds pans the viewport by the damped delta of the touch
PrimaryDragKeepsTransformTouchPans ==
    [][/\ PrimaryMouseDownStep =>
              isPanning' = isPanning /\ transformValues' = transformValues
       /\ (MouseMoveStep /\ ~isPanning) => transformValues' = transformValues
       /\ (lastEvent' = "touchStart" /\ events' # events /\ Len(touches') = 1) =>
              isPanning' /\ transformValues' = transformValues
       /\ SingleTouchMoveStep =>
              transformValues' =
                  IF isPanning
                  THEN PanContainer(transformValues,
                                    RSub(Whole(touches'[1][1]), lastPosX),
                                    RSub(Whole(touches'[1][2]), lastPosY))
                  ELSE transformValues]_vars

\* a move of a single touch point has panned the viewport
SingleTouchPanned ==
    /\ lastEvent = "touchMove"
    /\ Len(touches) = 1
    /\ isPanning
    /\ transformValues.scale = One
    /\ transformValues.translateX # Whole(0)

\* the step is a mouse-down while no pan is active
MouseDownStep == lastEvent' = "mouseDown" /\ events' # events /\ ~isPanning
\* the step is a mouse move while a pan is active
PanMoveStep == MouseMoveStep /\ isPanning
\* the delta of the pointer since the previous pointer event
PointerDeltaX == RSub(lastPosX', lastPosX)
PointerDeltaY == RSub(lastPosY', lastPosY)

SensitivitiesWithinRange ==
    /\ RLe(<<1, 10>>, panSensitivity) /\ RLe(panSensitivity, Whole(3))
    /\ RLe(<<1, 10>>, trackpadPanSensitivity) /\ RLe(trackpadPanSensitivity, Whole(3))
    /\ RLe(<<1, 100>>, zoomSensitivity) /\ RLe(zoomSensitivity, Half)

AtMostOneZoomTimeout ==
    /\ Cardinality(pendingTimers) <= 1
    /\ lastEvent = "wheel" => pendingTimers = {zoomTimeout}
    /\ lastEvent = "zoomTimeout" =>
           /\ pendingTimers = {}
           /\ staticGridRef.objectCaching
           /\ viewportTransform = UpdateFabricViewportFromContainer(transformValues)

\* the second zoom of a burst: the timer of the first has not fired (the viewport is
\* not committed yet) and one timer is pending
SecondWheelBeforeTimerFired ==
    /\ lastEvent = "wheel"
    /\ zoomLog.called
    /\ zoomLog.pre.scale # One
    /\ viewportTransform.scale = One
    /\ pendingTimers = {zoomTimeout}

-----------------------------------------------------------------------------
\* C21: at any time at most one transition-reset timer is pending, and a reset timer
\* set by an earlier operation never clears the transition style that a later
\* operation set.
ResetClearedLaterStyle ==
    /\ inputLog.kind = "transitionReset"
    /\ inputLog.cleared \notin {"", "none"}
    /\ \E later \in inputLog.pending : later.at > inputLog.timer.at

AtMostOneTransitionReset ==
    /\ Len(transitionResets) <= 1
    /\ ~ResetClearedLaterStyle

-----------------------------------------------------------------------------
\* C22: from the first wheel event of a burst until the idle timer fires the grid's
\* object caching is off; after the last wheel event of a burst the timer eventually
\* fires, and when it fires caching is turned back on and fabric's viewport is set
\* to the container transform.
IdleTimerPending == pendingTimers # {}

IdleTimerFired ==
    /\ lastEvent = "zoomTimeout"
    /\ pendingTimers = {}

CacheOffUntilIdleTimerFires ==
    /\ [](IdleTimerPending => ~staticGridRef.objectCaching)
    /\ [](IdleTimerFired =>
            /\ staticGridRef.objectCaching
            /\ viewportTransform = UpdateFabricViewportFromContainer(transformValues))
    /\ (IdleTimerPending ~> IdleTimerFired)

\* the idle timer fired after two or more wheel events and a rebuild of the grid
SecondBurstSettled ==
    /\ IdleTimerFired
    /\ events >= 2
    /\ gridBuilds >= 2
    /\ staticGridRef.objectCaching
    /\ transformValues # ResetZoom
    /\ viewportTransform = UpdateFabricViewportFromContainer(transformValues)

-----------------------------------------------------------------------------
\* C23: toSVG leaves fabric's viewport transform and the width and height of the
\* canvas as they were before the call, whether it returns the SVG or fails.
ToSVGRestoresView ==
    lastEvent = "toSVG" =>
        /\ viewportTransform = exportLog.originalVPT
        /\ canvasSize = exportLog.originalSize

-----------------------------------------------------------------------------
\* C24: in renderMarchers a row whose marcher is absent from the roster (and has no
\* drawable yet) is logged and skipped: no drawable is created for it, every other
\* row of the call has its drawable created or moved to the row's position, and the
\* drawables of marchers without a row are removed.
AbsentRows(log) ==
    { row \in Range(log.args.currentMarcherPages) :
        /\ row.marcher_id \notin log.args.allMarchers
        /\ row.marcher_id \notin MarcherIdsOf(log.before) }

AbsentRowSkippedOthersRendered ==
    renderLog.done /\ AbsentRows(renderLog) # {} =>
        /\ \A row \in AbsentRows(renderLog) :
               /\ row \in Range(renderLog.logged)
               /\ row.marcher_id \notin MarcherIdsOf(renderLog.after)
        /\ \A row \in Range(renderLog.args.currentMarcherPages) \ AbsentRows(renderLog) :
               \E o \in Range(renderLog.after) :
                   o.marcherId = row.marcher_id /\ o.x = row.x /\ o.y = row.y
        /\ MarcherIdsOf(renderLog.after) \subseteq RowMarcherIds(renderLog.args)

-----------------------------------------------------------------------------
\* C25: after renderMarcherShapes(shapePages) with distinct shape ids, marcherShapes
\* holds exactly the shape ids of shapePages; every shape held before whose id is
\* not in shapePages has been destroyed exactly once and dropped; every shape held
\* before and after is the same object, updated in place; a new object exists only
\* for the ids that were not held before.
ShapeIdsOf(shapes) == { shapes[i].shapePage.shape_id : i \in DOMAIN shapes }
ShapeObjectsOf(shapes) == { shapes[i].id : i \in DOMAIN shapes }
TimesDestroyed(log, id) == Cardinality({ i \in DOMAIN log.destroyed : log.destroyed[i] = id })

ShapesReconciledByIdentity ==
    shapeLog.done =>
        LET newShapeIds == { sp.shape_id : sp \in Range(shapeLog.shapePages) }
        IN  /\ ShapeIdsOf(shapeLog.after) = newShapeIds
            /\ Len(shapeLog.after) = Len(shapeLog.shapePages)
            /\ \A old \in Range(shapeLog.before) :
                   IF old.shapePage.shape_id \in newShapeIds
                   THEN /\ TimesDestroyed(shapeLog, old.id) = 0
                        /\ \E new \in Range(shapeLog.after) :
                               /\ new.id = old.id
                               /\ new.shapePage \in Range(shapeLog.shapePages)
                               /\ new.shapePage.shape_id = old.shapePage.shape_id
                   ELSE /\ TimesDestroyed(shapeLog, old.id) = 1
                        /\ old.id \notin ShapeObjectsOf(shapeLog.after)
            /\ \A new \in Range(shapeLog.after) :
                   new.id \notin ShapeObjectsOf(shapeLog.before) =>
                       /\ new.shapePage.shape_id \notin ShapeIdsOf(shapeLog.before)
                       /\ new.shapePage \in Range(shapeLog.shapePages)

\* one call that destroyed a shape, updated another in place and constructed a third
ShapeRemovedUpdatedAndCreated ==
    /\ shapeLog.done
    /\ Len(shapeLog.destroyed) = 1
    /\ \E old \in Range(shapeLog.before), new \in Range(shapeLog.after) :
           new.id = old.id /\ new.shapePage # old.shapePage
    /\ \E new \in Range(shapeLog.after) : new.id \notin ShapeObjectsOf(shapeLog.before)

\* ---------------------------------------------------------------------------
\* The background image: lookups, refreshed values and grid rebuilds
\* ---------------------------------------------------------------------------

MaxImageOps == 3

ImageGeometries ==
    FieldGeometries \cup { [Field EXCEPT !.showFieldImage = FALSE] }

InitImage ==
    /\ \E geometry \in ImageGeometries :
           Constructor(UiSettingsOf(TRUE, TRUE, FALSE, FALSE, Whole(0), Whole(0),
                                    <<1, 10>>), geometry)
    /\ isMac = TRUE
    /\ window = [innerWidth |-> 56, innerHeight |-> 48]
    /\ InitClick /\ InitRender /\ InitDb /\ InitSel

NextImage ==
    \/ \E response \in ImageResponses :
           /\ settingOps < MaxImageOps
           /\ RefreshBackgroundImage(response)
           /\ UNCHANGED <<canvasVars, renderVars, dbVars, selVars>>
    \/ \E newAspectRatio \in { Undefined, Whole(2) } :
           /\ settingOps < MaxImageOps
           /\ RefreshBackgroundImageValuesCall(newAspectRatio)
           /\ UNCHANGED <<canvasVars, renderVars, dbVars, selVars>>
    \/ \E geometry \in ImageGeometries :
           /\ settingOps < MaxImageOps
           /\ SetFieldProperties(geometry)
           /\ UNCHANGED <<canvasVars, renderVars, dbVars, selVars>>

SpecImage == InitImage /\ [][NextImage]_vars

\* C26: after a background-image fetch has failed, the grid on the canvas holds no
\* background image, not even one that an earlier fetch loaded, the failure is
\* logged and not raised, and the field grid is on the canvas
FailedFetchShowsNoImage ==
    lastEvent = "refreshBackgroundImage" /\ ~imageLog.response.success
        => /\ staticGridRef.image = NoImage
           /\ imageLog.errors > 0 /\ imageLog.outcome = "returned"
           /\ staticGridRef.id = gridBuilds

\* the last operation was a call of refreshBackgroundImageValues with no aspect
\* ratio while no values were stored
ValuesCallWithoutRatioOrValues ==
    /\ lastEvent = "refreshBackgroundImageValues"
    /\ imageLog.newAspectRatio = Undefined
    /\ imageLog.before = Undefined

\* C27 as stated: refreshBackgroundImageValues called with no aspect ratio while no
\* values are stored fails with an error, and a failed call leaves the stored
\* values as they were
ValuesCallWithoutRatioFails ==
    /\ ValuesCallWithoutRatioOrValues => imageLog.outcome = "error"
    /\ lastEvent = "refreshBackgroundImageValues" /\ imageLog.outcome = "error"
           => bgImageValues = imageLog.before

\* C27 amended: refreshBackgroundImageValues called with no aspect ratio while no
\* values are stored fails with an error if a background image is set and returns
\* without refreshing anything if none is set; a call that fails or returns so
\* leaves the stored values as they were
ValuesCallWithoutRatioFailsOrReturns ==
    /\ ValuesCallWithoutRatioOrValues
           => imageLog.outcome = IF imageLog.image.present THEN "error" ELSE "returned"
    /\ lastEvent = "refreshBackgroundImageValues" /\ imageLog.outcome # "refreshed"
           => bgImageValues = imageLog.before

\* a call with no aspect ratio and no stored values has returned
ValuesCallReturnedEarly ==
    ValuesCallWithoutRatioOrValues /\ imageLog.outcome = "returned"

\* ---------------------------------------------------------------------------
\* Input while renderMarchers awaits the section appearances
\* ---------------------------------------------------------------------------

MaxAsyncRenders == 1
MaxAsyncEvents == 2

\* two calls of renderMarchers: both marchers on page 0, and marcher 2 alone on page 1
AsyncRenderArgs ==
    { [currentMarcherPages |-> <<MarcherPageOf(1, 0), MarcherPageOf(2, 0)>>,
       allMarchers |-> MarcherIds],
      [currentMarcherPages |-> <<MarcherPageOf(2, 1)>>, allMarchers |-> MarcherIds] }

\* a wheel event on the canvas: a zoom or a pan
AsyncWheelStep(e) ==
    Wheel(e) /\ UNCHANGED <<gridVars, canvasVars, renderVars, dbVars, selVars>>

\* a selection made from outside the canvas
AsyncSelectStep(objs) ==
    SetActiveObjectsBegin(objs)
        /\ UNCHANGED <<viewVars, gridVars, canvasVars, renderVars, dbVars>>

\* renderMarchers calls and their lookups, and the wheel events and selections that
\* arrive while a lookup is pending; a call or a continuation starts only when no
\* other code runs
NextAsync ==
    \/ \E args \in AsyncRenderArgs :
           /\ selectPc = "idle"
           /\ renders < MaxAsyncRenders
           /\ RenderMarchersCall(args)
           /\ UNCHANGED <<viewVars, gridVars, canvasVars, dbVars, selVars>>
    \/ \E i \in 1..MaxPending :
           /\ selectPc = "idle"
           /\ RenderMarchersResume(i)
           /\ UNCHANGED <<viewVars, gridVars, canvasVars, dbVars, selVars>>
    \/ \E e \in GridWheelEvents :
           /\ selectPc = "idle"
           /\ pendingRenders # <<>>
           /\ events + selectOps < MaxAsyncEvents
           /\ AsyncWheelStep(e)
    \/ \E objs \in FrameSelections :
           /\ pendingRenders # <<>>
           /\ events + selectOps < MaxAsyncEvents
           /\ AsyncSelectStep(objs)
    \/ SetActiveObjectsSelect
           /\ UNCHANGED <<viewVars, gridVars, canvasVars, renderVars, dbVars>>
    \/ SetActiveObjectsReturn
           /\ UNCHANGED <<viewVars, gridVars, canvasVars, renderVars, dbVars>>

SpecAsync == InitFrame /\ [][NextAsync]_vars

\* every wheel event and every selection can be taken in the current state
InputIsProcessed ==
    /\ \A e \in GridWheelEvents : ENABLED AsyncWheelStep(e)
    /\ \A objs \in FrameSelections : ENABLED AsyncSelectStep(objs)

\* C28: a renderMarchers call puts no CanvasMarcher on the canvas before its
\* section-appearance lookup has completed: the call itself leaves the drawables
\* alone, and they change only in a step that completes a pending lookup; while a
\* lookup is pending, wheel events (pan and zoom) and selections are taken, and
\* taking them leaves the lookup pending
NoDrawableBeforeLookupInputNotBlocked ==
    /\ [][/\ renders' # renders
              => canvasMarchers' = canvasMarchers /\ nextObjectId' = nextObjectId
          /\ canvasMarchers' # canvasMarchers
              => Len(pendingRenders') < Len(pendingRenders)
          /\ (events' # events \/ selectOps' # selectOps)
              => pendingRenders' = pendingRenders]_vars
    /\ [](/\ pendingRenders # <<>>
          /\ selectPc = "idle" /\ events + selectOps < MaxAsyncEvents
          => InputIsProcessed)

\* while the lookup of a call is pending and nothing is drawn yet, a zoom has been
\* taken and a selection has been made
ZoomedAndSelectedWhilePending ==
    /\ pendingRenders # <<>>
    /\ canvasMarchers = <<>>
    /\ lastEvent = "wheel" /\ zoomLog # NoZoom
    /\ activeObject # NoSelection

\* ---------------------------------------------------------------------------
\* Yard lines of the field grid
\* ---------------------------------------------------------------------------

MaxYardOps == 2

\* a field of 1600 x 800 with 10 pixels to the step and the front centre at
\* (800, 800)
YardField(xCheckpoints, useHashes) ==
    [Field EXCEPT !.width = 1600, !.height = 800, !.pixelsPerStep = 10,
                  !.centerFrontPoint = [xPixels |-> 800, yPixels |-> 800],
                  !.xCheckpoints = xCheckpoints,
                  !.yCheckpoints = <<YCheckpoint(-8, TRUE, TRUE),
                                     YCheckpoint(-16, TRUE, FALSE),
                                     YCheckpoint(-4, FALSE, FALSE)>>,
                  !.useHashes = useHashes]

\* checkpoints at -4 and 4 steps; the same with a hidden one between them; two
\* at one place; one at the edge of the field; only hidden ones
YardGeometries ==
    { YardField(xCheckpoints, useHashes) :
        xCheckpoints \in
            { <<XCheckpoint(-4, TRUE), XCheckpoint(4, TRUE)>>,
              <<XCheckpoint(-4, TRUE), XCheckpoint(0, FALSE), XCheckpoint(4, TRUE)>>,
              <<XCheckpoint(8, TRUE), XCheckpoint(8, TRUE)>>,
              <<XCheckpoint(-80, TRUE), XCheckpoint(80, FALSE)>>,
              <<XCheckpoint(0, FALSE)>> },
        useHashes \in BOOLEAN }

InitYard ==
    /\ \E settings \in GridUiSettings, geometry \in YardGeometries :
           Constructor(settings, geometry)
    /\ isMac = TRUE
    /\ window = [innerWidth |-> 56, innerHeight |-> 48]
    /\ InitClick /\ InitRender /\ InitDb /\ InitSel

NextYard ==
    \/ \E geometry \in YardGeometries :
           /\ settingOps < MaxYardOps
           /\ SetFieldProperties(geometry)
           /\ UNCHANGED <<canvasVars, renderVars, dbVars, selVars>>
    \/ \E settings \in GridUiSettings :
           /\ settingOps < MaxYardOps
           /\ SetUiSettings(settings)
           /\ UNCHANGED <<canvasVars, renderVars, dbVars>>

SpecYard == InitYard /\ [][NextYard]_vars

\* the yard lines of a grid: its lines with the x-checkpoint properties that run
\* from top to bottom
YardLinesOf(grid) ==
    { i \in DOMAIN grid.checkpointLines :
        LET line == grid.checkpointLines[i]
        IN  /\ line.props = "xCheckpointProps"
            /\ line.x1 = line.x2 /\ line.y1 = 0 /\ line.y2 = grid.fieldProperties.height }

\* the visible x-checkpoints of a field that stand at x
VisibleXCheckpointsAt(geometry, x) ==
    { j \in DOMAIN geometry.xCheckpoints :
        /\ geometry.xCheckpoints[j].visible
        /\ x = geometry.centerFrontPoint.xPixels
                + geometry.xCheckpoints[j].stepsFromCenterFront * geometry.pixelsPerStep }

\* C29: the grid has exactly one yard line for each visible x-checkpoint of its
\* field, at x = centerX + stepsFromCenterFront * pixelsPerStep, and no yard line
\* anywhere else, so none for a checkpoint that is not visible
OneYardLinePerVisibleXCheckpoint ==
    \A x \in 0..staticGridRef.fieldProperties.width
              \cup { staticGridRef.checkpointLines[i].x1 :
                         i \in YardLinesOf(staticGridRef) } :
        Cardinality({ i \in YardLinesOf(staticGridRef) :
                        staticGridRef.checkpointLines[i].x1 = x })
            = Cardinality(VisibleXCheckpointsAt(staticGridRef.fieldProperties, x))

\* the grid of a field of width 1600 with visible checkpoints at -4 and 4 steps and
\* a hidden one at 0, 10 pixels to the step: yard lines at 760 and 840 only
YardLinesAtMinusAndPlus40 ==
    /\ lastEvent = "setFieldProperties"
    /\ staticGridRef.fieldProperties.xCheckpoints
           = <<XCheckpoint(-4, TRUE), XCheckpoint(0, FALSE), XCheckpoint(4, TRUE)>>
    /\ { staticGridRef.checkpointLines[i].x1 : i \in YardLinesOf(staticGridRef) }
           = { 800 - 40, 800 + 40 }
    /\ Cardinality(YardLinesOf(staticGridRef)) = 2

\* ---------------------------------------------------------------------------
\* Movement locks of the active object
\* ---------------------------------------------------------------------------

MaxLockOps == 2

\* settings objects with every choice of the two locks, with and without grid lines
LockUiSettings ==
    { [UiSettingsOf(gridLines, TRUE, lockX, FALSE, Whole(0), Whole(0), <<1, 10>>)
          EXCEPT !.lockY = lockY] :
        gridLines \in BOOLEAN, lockX \in BOOLEAN, lockY \in BOOLEAN }

InitLock ==
    /\ \E settings \in LockUiSettings : Constructor(settings, Field)
    /\ isMac = TRUE
    /\ window = [innerWidth |-> 56, innerHeight |-> 48]
    /\ InitClick /\ InitRender /\ InitDb /\ InitSel

NextLock ==
    \/ \E settings \in LockUiSettings :
           /\ settingOps < MaxLockOps
           /\ SetUiSettings(settings)
           /\ UNCHANGED <<canvasVars, renderVars, dbVars>>
    \/ \E object \in {1, 2} :
           /\ selectOps < MaxLockOps
           /\ SetActiveObject(object)
           /\ UNCHANGED <<viewVars, gridVars, canvasVars, renderVars, dbVars>>
    \/ \E objs \in FrameSelections \cup { {} } :
           /\ selectOps < MaxLockOps
           /\ SetActiveObjectsBegin(objs)
           /\ UNCHANGED <<viewVars, gridVars, canvasVars, renderVars, dbVars>>
    \/ SetActiveObjectsSelect
           /\ UNCHANGED <<viewVars, gridVars, canvasVars, renderVars, dbVars>>
    \/ SetActiveObjectsReturn
           /\ UNCHANGED <<viewVars, gridVars, canvasVars, renderVars, dbVars>>

SpecLock == InitLock /\ [][NextLock]_vars

\* C30: after any sequence of setActiveObject, setActiveObjects and setUiSettings
\* calls the active object's lockMovementX and lockMovementY are the lockX and
\* lockY of the UI settings supplied last, and a setUiSettings call whose settings
\* keep gridLines and halfLines leaves the grid and the drawables on the canvas as
\* they are
ActiveObjectLockedAsSettingsNoRebuild ==
    /\ [](activeObject # NoSelection
              => /\ lockMovement.x = uiSettings.lockX
                 /\ lockMovement.y = uiSettings.lockY)
    /\ [][/\ settingOps' # settingOps
          /\ uiSettings'.gridLines = uiSettings.gridLines
          /\ uiSettings'.halfLines = uiSettings.halfLines
          => UNCHANGED <<staticGridRef, gridBuilds, canvasMarchers, marcherShapes>>]_vars

\* an object is active, settings have been supplied once since the constructor,
\* without a rebuild of the grid, and both axes are locked as these settings say
LocksChangedUnderActiveObject ==
    /\ lastEvent = "setUiSettings"
    /\ activeObject # NoSelection
    /\ gridBuilds = 1
    /\ settingOps = 1
    /\ uiSettings.lockX /\ uiSettings.lockY
    /\ lockMovement = [x |-> TRUE, y |-> TRUE]

\* ---------------------------------------------------------------------------
\* Drawables that renderMarchers keeps, and the selection
\* ---------------------------------------------------------------------------

MaxKeepRenders == 2
MaxKeepSelects == 2

\* renderMarchers calls, and selections of the drawables on the canvas, named by
\* their identities; renderMarchers makes no selection call
NextKeep ==
    \/ \E args \in { a \in RenderArgs : a.allMarchers = MarcherIds } :
           /\ selectPc = "idle"
           /\ renders < MaxKeepRenders
           /\ RenderMarchersCall(args)
           /\ UNCHANGED <<viewVars, gridVars, canvasVars, dbVars, selVars>>
    \/ \E i \in 1..MaxPending :
           /\ selectPc = "idle"
           /\ RenderMarchersResume(i)
           /\ UNCHANGED <<viewVars, gridVars, canvasVars, dbVars, selVars>>
    \/ \E o \in Range(canvasMarchers) :
           /\ selectOps < MaxKeepSelects
           /\ SetActiveObject(o.id)
           /\ UNCHANGED <<viewVars, gridVars, canvasVars, renderVars, dbVars>>
    \/ \E objs \in SUBSET { o.id : o \in Range(canvasMarchers) } :
           /\ selectOps < MaxKeepSelects
           /\ SetActiveObjectsBegin(objs)
           /\ UNCHANGED <<viewVars, gridVars, canvasVars, renderVars, dbVars>>
    \/ SetActiveObjectsSelect
           /\ UNCHANGED <<viewVars, gridVars, canvasVars, renderVars, dbVars>>
    \/ SetActiveObjectsReturn
           /\ UNCHANGED <<viewVars, gridVars, canvasVars, renderVars, dbVars>>

SpecKeep == InitScene /\ [][NextKeep]_vars

\* the drawables of the last call that stood for a marcher of the call's rows
KeptDrawables(log) ==
    { o \in Range(log.before) :
        \E row \in Range(log.args.currentMarcherPages) : row.marcher_id = o.marcherId }

\* C31: a CanvasMarcher that is on the canvas before renderMarchers for a marcher of
\* the supplied rows is the one drawable of that marcher afterwards (the same
\* object, no new one), its coordinates are the row's, and the step that renders
\* leaves the selection, and so the drawable's membership in it, as it was
KeptDrawableMovedInPlace ==
    /\ [](renderLog.done =>
            \A o \in KeptDrawables(renderLog) :
            \A row \in Range(renderLog.args.currentMarcherPages) :
                row.marcher_id = o.marcherId =>
                    { p \in Range(renderLog.after) : p.marcherId = o.marcherId }
                        = { [o EXCEPT !.x = row.x, !.y = row.y] })
    /\ [][Len(pendingRenders') < Len(pendingRenders)
              => activeObject' = activeObject]_vars

\* a render has moved a drawable that is part of the selection
SelectedDrawableMoved ==
    /\ renderLog.done
    /\ \E o \in KeptDrawables(renderLog) :
           /\ o.id \in activeObject.objects
           /\ \E p \in Range(renderLog.after) : p.id = o.id /\ p.x # o.x

\* ---------------------------------------------------------------------------
\* The y-checkpoints of the field grid: their order and the start of the Y grid
\* ---------------------------------------------------------------------------

MaxStartOps == 2

\* fields of 16 x 8 with 2 pixels to the step whose y-checkpoints are: whole and
\* visible; a visible half-step one in front of a whole one, listed after it; a
\* hidden half-step one in front; a hidden whole one in front of a visible
\* half-step one; hidden ones only; a half-step one alone
StartGeometries ==
    { [Field EXCEPT !.yCheckpoints = ys] :
        ys \in { <<YCheckpoint(0, TRUE, TRUE), YCheckpoint(-2, TRUE, FALSE)>>,
                 <<YCheckpoint(-2, TRUE, TRUE), YCheckpointAt(<<-1, 2>>, TRUE, FALSE)>>,
                 <<YCheckpointAt(<<-1, 2>>, FALSE, FALSE), YCheckpoint(-1, TRUE, TRUE)>>,
                 <<YCheckpoint(0, FALSE, FALSE), YCheckpointAt(<<-3, 2>>, TRUE, TRUE),
                   YCheckpoint(-3, TRUE, FALSE)>>,
                 <<YCheckpointAt(<<-5, 2>>, FALSE, FALSE), YCheckpoint(-2, FALSE, TRUE)>>,
                 <<YCheckpointAt(<<-1, 2>>, TRUE, TRUE)>> } }

InitStart ==
    /\ \E settings \in GridUiSettings, geometry \in StartGeometries :
           Constructor(settings, geometry)
    /\ isMac = TRUE
    /\ window = [innerWidth |-> 56, innerHeight |-> 48]
    /\ InitClick /\ InitRender /\ InitDb /\ InitSel

NextStart ==
    \/ \E geometry \in StartGeometries :
           /\ settingOps < MaxStartOps
           /\ SetFieldProperties(geometry)
           /\ UNCHANGED <<canvasVars, renderVars, dbVars, selVars>>
    \/ \E settings \in GridUiSettings :
           /\ settingOps < MaxStartOps
           /\ SetUiSettings(settings)
           /\ UNCHANGED <<canvasVars, renderVars, dbVars>>

SpecStart == InitStart /\ [][NextStart]_vars

\* the offset is a whole number of steps
WholeSteps(steps) == steps[2] = 1

\* every Y grid line of the grid lies a whole number of steps from y
YGridLinesWholeStepsFrom(grid, y) ==
    \A i \in DOMAIN grid.yGridLines :
        WholeSteps(RDiv(RSub(grid.yGridLines[i], y),
                        Whole(grid.fieldProperties.pixelsPerStep)))

\* C32 as stated: the checkpoint from which the Y grid lines start has a whole
\* stepsFromCenterFront whenever the field has a checkpoint with a whole one, and
\* then every Y grid line lies a whole number of steps from the center-front
\* reference
YGridStartsOnWholeCheckpoint ==
    (\E c \in Range(staticGridRef.fieldProperties.yCheckpoints) : WholeSteps(StepsOf(c)))
        => /\ WholeSteps(StepsOf(staticGridRef.yGridStart))
           /\ YGridLinesWholeStepsFrom(
                  staticGridRef, Whole(staticGridRef.fieldProperties.centerFrontPoint.yPixels))

\* the offset of the front-most visible y-checkpoint, or of the rear-most
\* y-checkpoint when none is visible
FrontMostVisibleSteps(ys) ==
    LET candidates == IF \E c \in Range(ys) : c.visible
                      THEN { c \in Range(ys) : c.visible } ELSE Range(ys)
        Ahead(a, b) == IF \E c \in Range(ys) : c.visible
                       THEN RLe(StepsOf(b), StepsOf(a)) ELSE RLe(StepsOf(a), StepsOf(b))
    IN  StepsOf(CHOOSE a \in candidates : \A b \in candidates : Ahead(a, b))

\* the offset of the front-most y-checkpoint, the one with the largest offset
FrontMostSteps(ys) ==
    StepsOf(CHOOSE a \in Range(ys) : \A b \in Range(ys) : RLe(StepsOf(b), StepsOf(a)))

\* C32 amended: the checkpoint from which the Y grid lines start is the front-most
\* y-checkpoint, unless the front-most visible y-checkpoint (the rear-most
\* y-checkpoint when none is visible) is at an offset that is not whole, and then
\* it is that checkpoint; every Y grid line lies a whole number of steps from the
\* checkpoint the lines start from
YGridStartsAtFrontOrFractionalVisible ==
    /\ StepsOf(staticGridRef.yGridStart)
           = IF WholeSteps(FrontMostVisibleSteps(staticGridRef.fieldProperties.yCheckpoints))
             THEN FrontMostSteps(staticGridRef.fieldProperties.yCheckpoints)
             ELSE FrontMostVisibleSteps(staticGridRef.fieldProperties.yCheckpoints)
    /\ YGridLinesWholeStepsFrom(
           staticGridRef,
           RAdd(Whole(staticGridRef.fieldProperties.centerFrontPoint.yPixels),
                RMul(StepsOf(staticGridRef.yGridStart),
                     Whole(staticGridRef.fieldProperties.pixelsPerStep))))

\* a grid with Y grid lines whose field has a hidden whole checkpoint in front of
\* a visible one at -3/2 steps: the lines start at -3/2 steps
YGridStartsAtHalfStep ==
    /\ lastEvent = "setFieldProperties"
    /\ staticGridRef.yGridLines # <<>>
    /\ StepsOf(staticGridRef.yGridStart) = <<-3, 2>>
    /\ \E c \in Range(staticGridRef.fieldProperties.yCheckpoints) :
           ~c.visible /\ StepsOf(c) = Whole(0)

\* C33: a build of the field grid leaves the field properties it reads as they
\* were: the field properties after the build, with the contents and the order
\* of their x- and y-checkpoint lists, are those that the build found
BuildKeepsFieldProperties ==
    /\ staticGridRef.fieldProperties.xCheckpoints = staticGridRef.builtFrom.xCheckpoints
    /\ staticGridRef.fieldProperties.yCheckpoints = staticGridRef.builtFrom.yCheckpoints
    /\ staticGridRef.fieldProperties = staticGridRef.builtFrom

\* ---------------------------------------------------------------------------
\* The selection lock when a selection change fails
\* ---------------------------------------------------------------------------

MaxFailOps == 3

\* setActiveObjects calls that return or end with an exception
NextFail ==
    \/ \E objs \in SUBSET Selectables :
           /\ selectOps < MaxFailOps
           /\ SetActiveObjectsBegin(objs)
           /\ UNCHANGED <<viewVars, gridVars, canvasVars, renderVars, dbVars>>
    \/ SetActiveObjectsSelect
           /\ UNCHANGED <<viewVars, gridVars, canvasVars, renderVars, dbVars>>
    \/ SetActiveObjectsReturn
           /\ UNCHANGED <<viewVars, gridVars, canvasVars, renderVars, dbVars>>
    \/ SetActiveObjectsThrows
           /\ UNCHANGED <<viewVars, gridVars, canvasVars, renderVars, dbVars>>

SpecFail == InitScene /\ [][NextFail]_vars

\* C34: handleSelectLock is false whenever no setActiveObjects call is executing,
\* also after a call whose selection change failed, so that a setActiveObjects
\* call made then is not ignored: it makes its argument the selection
LockReleasedWhenNoCallRuns ==
    /\ [](selectPc = "idle" => ~handleSelectLock)
    /\ [][selectPc = "idle" /\ selectOps' # selectOps
              => \/ selectPc' # "idle"
                 \/ activeObject' = SelectionChange(activeObject, selectArg')]_vars

\* ---------------------------------------------------------------------------
\* Touch gestures with up to three fingers down, and the mouse beside them
\* ---------------------------------------------------------------------------
MaxFingers == 3
MaxTouchEvents == 5

\* a primary-button press (selects) and a middle-button press (starts a pan)
TouchMouseDownEvents == { e \in PointerMouseDownEvents : e.button \in {0, 1} /\ ~e.altKey }

NextTouch ==
    \/ \E p \in TouchPoints :
           /\ events < MaxTouchEvents
           /\ Len(touches) < MaxFingers
           /\ TouchStart(p) /\ UNCHANGED <<gridVars, canvasVars, renderVars, dbVars, selVars>>
    \/ \E i \in 1..MaxFingers, p \in TouchPoints :
           /\ events < MaxTouchEvents
           /\ TouchMove(i, p) /\ UNCHANGED <<gridVars, canvasVars, renderVars, dbVars, selVars>>
    \/ \E i \in 1..MaxFingers :
           /\ events < MaxTouchEvents
           /\ TouchEnd(i) /\ UNCHANGED <<gridVars, canvasVars, renderVars, dbVars, selVars>>
    \/ \E e \in TouchMouseDownEvents :
           /\ events < MaxTouchEvents
           /\ MouseDown(e) /\ UNCHANGED <<gridVars, canvasVars, renderVars, dbVars, selVars>>
    \/ \E p \in ClientPoints :
           /\ events < MaxTouchEvents
           /\ MouseMove(p) /\ UNCHANGED <<gridVars, canvasVars, renderVars, dbVars, selVars>>
    \/ events < MaxTouchEvents /\ MouseUp
           /\ UNCHANGED <<gridVars, canvasVars, renderVars, dbVars, selVars>>

SpecTouch == InitScene /\ [][NextTouch]_vars

\* the step is a mouse-up or a touch-end
GestureEndStep ==
    lastEvent' \in {"mouseUp", "mouseUpEndsPan", "touchEnd"} /\ events' # events
\* the step is a mouse move or a touch move that directly follows a mouse-up or a
\* touch-end, so no mouse-down and no touch-start lies between the two
MoveAfterGestureEnd ==
    /\ lastEvent \in {"mouseUp", "mouseUpEndsPan", "touchEnd"}
    /\ lastEvent' \in {"mouseMove", "touchMove"}
    /\ events' # events

\* C35: every mouse-up and every touch-end leaves isPanning false, a touch-end also
\* leaves the reference pinch distance cleared, and a mouse move or touch move that
\* follows such an event before any mouse-down or touch-start leaves the transform
\* as it was
MovesAfterGestureEndKeepTransform ==
    [][/\ GestureEndStep => ~isPanning'
       /\ (GestureEndStep /\ lastEvent' = "touchEnd") => initialPinchDistance' = 0
       /\ MoveAfterGestureEnd => transformValues' = transformValues]_vars

\* C38: a two-touch move that computes a zoom factor (one that zoomContainer is
\* called with) divides by a reference pinch distance that is strictly positive
PinchReferencePositive ==
    [][(lastEvent' = "touchMove" /\ events' # events /\ Len(touches') = 2
            /\ PinchThresholdExceeded(TouchDistance(touches'), initialPinchDistance))
         => initialPinchDistance > 0]_vars

\* ---------------------------------------------------------------------------
\* createMarchers (MarcherPageTable.ts:263-340)
\* ---------------------------------------------------------------------------
MaxCreateOps == 2

\* NewMarcherArgs: drill number B2 is taken at the start, B3 and B4 are free
NewDrillOrders == {2, 3, 4}
NewMarcherArgs == { [drill_prefix |-> "B", drill_order |-> n] : n \in NewDrillOrders }
\* the step of createMarchers at which the database fails, if it does
CreateFailures == {"none", "marchers", "pages", "marcherPages"}

\* INTEGER PRIMARY KEY (line 221): a new row gets the largest id of the table plus one
NextRowId(table) ==
    IF table = {} THEN 1
    ELSE Only({ r.id : r \in { q \in table : \A o \in table : o.id <= q.id } }) + 1

\* UNIQUE ("drill_prefix", "drill_order") (line 230): an item has the drill number of a
\* row of the table or of another item
ViolatesUnique(table, items) ==
    \/ \E i \in DOMAIN items : \E r \in table :
           r.drill_prefix = items[i].drill_prefix /\ r.drill_order = items[i].drill_order
    \/ \E i, j \in DOMAIN items : i # j /\ items[i] = items[j]

\* DbActions.createItems: the items become rows with the next ids, in the order of
\* the items, and the response carries the rows; a failed insert leaves no row
CreateItems(table, items, fails) ==
    IF fails THEN [success |-> FALSE, data |-> <<>>, table |-> table]
    ELSE LET first == NextRowId(table)
             data == [i \in DOMAIN items |-> [id |-> first + i - 1] @@ items[i]]
         IN  [success |-> TRUE, data |-> data, table |-> table \cup Range(data)]

\* createMarcherPages (lines 72-97)
CreateMarcherPages(rows, newMarcherPages, fails) ==
    Only({ [success |-> response.success,
            data |-> IF response.data = <<>> THEN "null" ELSE response.data[1],
            table |-> response.table] :
           response \in { CreateItems(rows, newMarcherPages, fails) } })

\* PageTable.getPages
GetPages(pages, fails) ==
    IF fails THEN [success |-> FALSE, data |-> <<>>]
    ELSE [success |-> TRUE, data |-> pages]

\* the rows that the two loops of createMarchers push (lines 302-311): for each new
\* marcher, one for each page, at (100, 100)
NewMarcherPages(marchers, pages) ==
    [k \in 1..(Len(marchers) * Len(pages)) |->
        [marcher_id |-> marchers[((k - 1) \div Len(pages)) + 1].id,
         page_id |-> pages[((k - 1) % Len(pages)) + 1],
         x |-> 100, y |-> 100]]

\* createMarchers (lines 263-340). actionWasPerformed is declared false (line 273) and
\* is assigned nowhere, so the catch block (lines 325-336) never calls performUndo
CreateMarchers(newMarchers, failure) ==
    \E marcherInsertResponse \in
           { CreateItems(marcherTable, newMarchers,
                         failure = "marchers" \/ ViolatesUnique(marcherTable, newMarchers)) },
       allPages \in { GetPages(pageTable, failure = "pages") } :
        \E createMarcherPageResponse \in
               { CreateMarcherPages(marcherPageRows,
                                    NewMarcherPages(marcherInsertResponse.data,
                                                    allPages.data),
                                    failure = "marcherPages") } :
            LET actionWasPerformed == FALSE
                failedAt == IF ~marcherInsertResponse.success THEN "marchers"
                            ELSE IF ~allPages.success THEN "pages"
                            ELSE IF ~createMarcherPageResponse.success THEN "marcherPages"
                            ELSE "none"
                undone == failedAt # "none" /\ actionWasPerformed
            IN  /\ marcherTable' = IF undone THEN marcherTable
                                   ELSE marcherInsertResponse.table
                /\ marcherPageRows' =
                       IF failedAt = "none" THEN createMarcherPageResponse.table
                       ELSE marcherPageRows
                /\ createLog' =
                       [done |-> TRUE, success |-> failedAt = "none",
                        data |-> IF failedAt = "none" THEN marcherInsertResponse.data
                                 ELSE <<>>,
                        failedAt |-> failedAt, newMarchers |-> newMarchers,
                        marchersBefore |-> marcherTable,
                        marcherPagesBefore |-> marcherPageRows]
                /\ dbOps' = dbOps + 1
                /\ UNCHANGED <<marcherPageTable, shapePageMarchers, updateLog, pageTable>>

NextCreate ==
    \/ \E newMarchers \in SeqsUpTo(NewMarcherArgs, MaxBatch), failure \in CreateFailures :
           /\ dbOps < MaxCreateOps
           /\ CreateMarchers(newMarchers, failure)
           /\ UNCHANGED <<viewVars, gridVars, canvasVars, renderVars, selVars>>

SpecCreate == InitScene /\ [][NextCreate]_vars

\* the MarcherPage rows of marcher m on page p
RowsOf(m, p) == { r \in marcherPageRows : r.marcher_id = m /\ r.page_id = p }

\* C36: after a successful createMarchers every marcher it created has exactly one
\* MarcherPage row for every page, and after any sequence of createMarchers calls
\* every marcher of the marchers table has exactly one row for every page
OneMarcherPagePerMarcherAndPage ==
    /\ (createLog.done /\ createLog.success) =>
           \A m \in Range(createLog.data), p \in Range(pageTable) :
               Cardinality(RowsOf(m.id, p)) = 1
    /\ \A m \in marcherTable, p \in Range(pageTable) : Cardinality(RowsOf(m.id, p)) = 1

\* C40: a createMarchers call that failed at any step returned a failure response,
\* and the marchers table and the marcher_pages table are as they were before it
FailedCreateLeavesDatabase ==
    (createLog.done /\ createLog.failedAt # "none") =>
        /\ ~createLog.success
        /\ marcherTable = createLog.marchersBefore
        /\ marcherPageRows = createLog.marcherPagesBefore

\* no pan is in progress, no touch is down and no idle timer is pending
Quiescent == ~isPanning /\ touches = <<>> /\ pendingTimers = {}

\* C37: in every quiescent state fabric's viewport scale and translation equal
\* transformValues.scale, translateX and translateY, whatever operations changed the
\* transform before, a click on the zoom-in or zoom-out button among them
QuiescentViewportCommitted ==
    Quiescent =>
        /\ viewportTransform.scale = transformValues.scale
        /\ viewportTransform.translateX = transformValues.translateX
        /\ viewportTransform.translateY = transformValues.translateY

\* ---------------------------------------------------------------------------
\* Overlapping renderMarchers calls, with the history of the call issued last
\* ---------------------------------------------------------------------------
MaxRaceRenders == 2

\* calls for the whole roster, with rows of one page for any marchers
RaceRenderArgs == { a \in RenderArgs : a.allMarchers = MarcherIds }

NextRace ==
    \/ \E args \in RaceRenderArgs :
           /\ renders < MaxRaceRenders
           /\ RenderMarchersCall(args)
           /\ lastIssued' = IF pendingRenders # <<>> THEN <<args>> ELSE <<>>
           /\ UNCHANGED <<viewVars, gridVars, clickVars, exportVars, shapeVars, dbVars,
                          selVars>>
    \/ \E i \in 1..MaxPending :
           RenderMarchersResume(i)
           /\ UNCHANGED <<viewVars, gridVars, canvasVars, dbVars, selVars>>

SpecRace == InitScene /\ [][NextRace]_vars

\* what the canvas shows: the marcher and the position of every CanvasMarcher
ShownMarchers == { [marcher_id |-> o.marcherId, x |-> o.x, y |-> o.y] :
                     o \in Range(canvasMarchers) }
\* what a renderMarchers call asks for: the marcher and the position of every row
AskedMarchers(args) ==
    { [marcher_id |-> r.marcher_id, x |-> r.x, y |-> r.y] :
        r \in Range(args.currentMarcherPages) }

\* C39: when the call issued last was issued while another call still awaited its
\* lookup, then once no call is pending the canvas shows the marchers and the
\* coordinates of the call issued last, whichever lookup completed first
LastIssuedRenderShown ==
    (lastIssued # <<>> /\ pendingRenders = <<>>) =>
        ShownMarchers = AskedMarchers(lastIssued[1])

====
